---- MODULE Spec2Model ----
(***************************************************************************)
(* Model of pymatgen/io/abinitio/workflows.py: the Workflow / AbinitFlow   *)
(* scheduling core (status checks, dependency pass, on_ok finalization,    *)
(* callbacks fired by on_dep_ok, the signal bus subscriptions and the      *)
(* pickle snapshot).                                                       *)
(*                                                                         *)
(* A node is named by its position: <<w, 0>> is the workflow stored at     *)
(* slot w of the flow, <<w, t>> is the task at index t of that workflow    *)
(* (positions are 1-based here, 0-based in the code).  A Dependency is     *)
(* modelled by the upstream node it refers to; its extension tags are      *)
(* opaque to every function of workflows.py and are left out.              *)
(***************************************************************************)
EXTENDS Integers, Sequences, FiniteSets, TLC

(* ---------------------------------------------------------------------- *)
(* Bounds of the model.                                                    *)
(* ---------------------------------------------------------------------- *)
MaxWorks == 2
MaxTasks == 2
MaxCbks == 1
MaxDeps == 2
MaxTaskDeps == 1
MaxFlowTasks == 3
MaxVals == 3
MaxObjs == 2
MaxLayoutTasks == 2
MaxDispatchCbks == 2
MaxConvLen == 4
MaxConvVal == 2
MaxConvTol == 2
MaxConvPts == 2

(* ---------------------------------------------------------------------- *)
(* The status enum of Node, in its total order.                            *)
(* ---------------------------------------------------------------------- *)
S_INIT == 0
S_LOCKED == 1
S_READY == 2
S_SUB == 3
S_RUN == 4
S_DONE == 5
S_ERROR == 6
S_UNCONVERGED == 7
S_OK == 8

VARIABLES
    works,      \* AbinitFlow._works: sequence of workflows
    callbacks,  \* AbinitFlow._callbacks: sequence of Callback records
    bus,        \* dispatcher connections: set of [h, w, sender]
    disk,       \* content of flow.workdir/__workflow__.pickle
    phase,      \* "setup", "dumping", "run" or "dead" (driver process state)
    nextid,     \* next node identifier handed out at node construction
    npub,       \* per workflow slot: number of S_OK signals it has sent
    nhook,      \* per workflow slot: number of on_all_ok calls
    pubObs,     \* per workflow slot: what held at its last S_OK send
    ncalls,     \* per callback: number of invocations of its function
    cbkObs,     \* per callback: what held at the last invocation
    dumped,     \* the flow as it was in memory at the last completed dump
    loop,       \* position and data of a running submit_tasks loop
    layout,     \* workdirs and managers of workflows and tasks (LayoutSpec)
    conv        \* the last call of check_conv: its arguments and its outcome

vars == <<works, callbacks, bus, disk, phase, nextid,
          npub, nhook, pubObs, ncalls, cbkObs, dumped, loop, layout, conv>>

WorkIds == 1..MaxWorks
CbkIds == 1..MaxCbks
Nodes == (1..(MaxWorks + MaxDispatchCbks)) \X (0..(MaxTasks + MaxVals))

Min2(a, b) == IF a <= b THEN a ELSE b

(* ---------------------------------------------------------------------- *)
(* Node helpers.                                                           *)
(* ---------------------------------------------------------------------- *)
\* A variant in which the new task does not get an identifier of its own.
NewTaskNoId(deps, id) == [status |-> S_INIT, deps |-> deps, node_id |-> 0]

\* Task(...) as constructed by Workflow.register: status S_INIT.
NewTask(deps, id) == [status |-> S_INIT, deps |-> deps, node_id |-> id]

\* Workflow.__init__: no tasks, not finalized.
NewWork(deps, id) ==
    [tasks |-> <<>>, finalized |-> FALSE, deps |-> deps, node_id |-> id]

\* len(work)
NTasks(ws, w) == Len(ws[w].tasks)

\* The nodes that exist in the flow ws.
ExistingNodes(ws) ==
    {n \in Nodes : n[1] <= Len(ws) /\ n[2] <= NTasks(ws, n[1])}

\* The tasks that exist in the flow ws.
TaskNodes(ws) == {n \in ExistingNodes(ws) : n[2] > 0}

\* The sets of upstream nodes a task registration may name.
TaskDepChoices(cands) == {d \in SUBSET cands : Cardinality(d) <= MaxTaskDeps}

\* The sets of upstream nodes a registration may name.
DepChoices(cands) == {d \in SUBSET cands : Cardinality(d) <= MaxDeps}

(* ---------------------------------------------------------------------- *)
(* Status queries.                                                         *)
(* ---------------------------------------------------------------------- *)
\* all(task.status == task.S_OK for task in self), as on_ok computes it.
AllOk(ws, w) == \A i \in 1..NTasks(ws, w) : ws[w].tasks[i].status = S_OK

\* A variant of the minimum that looks at one task only.
FirstStatus(ts, i) == ts[i].status

RECURSIVE MinStatus(_, _)
MinStatus(ts, i) ==
    IF i >= Len(ts) THEN ts[i].status
    ELSE Min2(ts[i].status, MinStatus(ts, i + 1))

\* Workflow.status: the value get_all_status(only_min=True) returns.
WorkStatus(ws, w) ==
    IF NTasks(ws, w) = 0 THEN S_INIT ELSE MinStatus(ws[w].tasks, 1)

\* Dependency.status: the status of the upstream node.
NodeStatus(ws, n) ==
    IF n[2] = 0 THEN WorkStatus(ws, n[1]) ELSE ws[n[1]].tasks[n[2]].status

\* all([status == S_OK for status in deps_status])
DepsAllOk(ws, deps) == \A d \in deps : NodeStatus(ws, d) = S_OK

(* ---------------------------------------------------------------------- *)
(* Workflow.check_status, dependency pass.                                 *)
(*                                                                         *)
(* Reading the status of a dependency that is a non-empty workflow runs    *)
(* that workflow's check_status (get_all_status calls it).  Such a nested  *)
(* pass only moves tasks of status <= S_SUB to S_READY, so it never changes*)
(* the outcome of a "status == S_OK" test: the passes commute, and the     *)
(* result is the pass applied to every workflow whose status is read.      *)
(* ---------------------------------------------------------------------- *)
\* The workflows whose status property is read when deps are evaluated
\* (an empty workflow returns S_INIT before calling check_status).
WorksRead(ws, deps) ==
    {d[1] : d \in {e \in deps : e[2] = 0 /\ NTasks(ws, e[1]) > 0}}

\* The dependencies the pass over workflow w evaluates: the test
\* `task.status <= S_SUB and all([...])` reads them only for status <= S_SUB.
PassDeps(ws, w) ==
    UNION {ws[w].tasks[i].deps :
              i \in {j \in 1..NTasks(ws, w) : ws[w].tasks[j].status <= S_SUB}}

\* The workflows whose check_status runs when those of W run.
RECURSIVE Checked(_, _)
Checked(ws, W) ==
    LET more == UNION {WorksRead(ws, PassDeps(ws, w)) : w \in W}
    IN  IF more \subseteq W THEN W ELSE Checked(ws, W \cup more)

\* A variant of the readiness test that ignores the dependencies.
MustSetReadyNoDeps(ws, task) == task.status <= S_SUB

\* The test of the dependency pass.
MustSetReady(ws, task) ==
    task.status <= S_SUB /\ DepsAllOk(ws, task.deps)

\* A variant of the second loop that does not look at the status of the
\* task.
ReadyPassAnyStatus(ws, W) ==
    [w \in 1..Len(ws) |->
        IF w \in W
        THEN [ws[w] EXCEPT !.tasks =
                 [i \in 1..NTasks(ws, w) |->
                     IF DepsAllOk(ws, ws[w].tasks[i].deps)
                     THEN [ws[w].tasks[i] EXCEPT !.status = S_READY]
                     ELSE ws[w].tasks[i]]]
        ELSE ws[w]]

\* The second loop of check_status on every workflow of W.
ReadyPass(ws, W) ==
    [w \in 1..Len(ws) |->
        IF w \in W
        THEN [ws[w] EXCEPT !.tasks =
                 [i \in 1..NTasks(ws, w) |->
                     IF MustSetReady(ws, ws[w].tasks[i])
                     THEN [ws[w].tasks[i] EXCEPT !.status = S_READY]
                     ELSE ws[w].tasks[i]]]
        ELSE ws[w]]

(* ---------------------------------------------------------------------- *)
(* Persistence.                                                            *)
(* ---------------------------------------------------------------------- *)
NoFile == [kind |-> "none", works |-> <<>>, callbacks |-> <<>>]
Truncated == [kind |-> "partial", works |-> <<>>, callbacks |-> <<>>]

\* A variant of the snapshot that loses the finalized latch.
PickleNoLatch(ws, cbs) ==
    [kind |-> "full",
     works |-> [w \in 1..Len(ws) |->
                  [tasks |-> ws[w].tasks, deps |-> ws[w].deps,
                   node_id |-> ws[w].node_id, attrs |-> {}]],
     callbacks |-> cbs]

\* pickle.dump(flow): the attributes of every object reachable from the flow.
\* A workflow has the attribute _finalized only once on_ok has set it.
\* The dispatcher's connections are module state and are not in the graph.
Pickle(ws, cbs) ==
    [kind |-> "full",
     works |-> [w \in 1..Len(ws) |->
                  [tasks |-> ws[w].tasks, deps |-> ws[w].deps,
                   node_id |-> ws[w].node_id,
                   attrs |-> IF ws[w].finalized THEN {"_finalized"} ELSE {}]],
     callbacks |-> cbs]

\* pickle.load: the workflows of the snapshot; Workflow.finalized reads
\* _finalized and falls back to False when the attribute is missing.
UnpickleWorks(d) ==
    [w \in 1..Len(d.works) |->
        [tasks |-> d.works[w].tasks,
         finalized |-> "_finalized" \in d.works[w].attrs,
         deps |-> d.works[w].deps,
         node_id |-> d.works[w].node_id]]

UnpickleCallbacks(d) == d.callbacks

\* AbinitFlow.pickle_dump run to completion on machine state m; dumped
\* keeps the workflows as they are at this moment.
pickle_dump(m) ==
    [m EXCEPT !.disk = Pickle(m.works, m.callbacks),
              !.dumped = [works |-> [w \in 1..Len(m.works) |-> m.works[w]],
                          callbacks |-> m.callbacks]]

(* ---------------------------------------------------------------------- *)
(* Callbacks.                                                              *)
(* ---------------------------------------------------------------------- *)
\* What a user function or hook does when it is called in a step.
Behaviours == {"ok", "cbk_raise"}

\* Callback.handle_sender
handle_sender(cb, sender) == sender \in cb.deps

\* Callback.can_execute: `not self._disabled and [dep.status == S_OK ...]`.
\* The right operand is a list, true whenever it is not empty.
can_execute(cb) == ~cb.disabled /\ cb.deps # {}

\* Building that list reads the status of every dependency (not when the
\* callback is disabled: `and` does not evaluate its right operand then).
CanExecuteReads(ws, cb) ==
    IF cb.disabled THEN ws
    ELSE ReadyPass(ws, Checked(ws, WorksRead(ws, cb.deps)))

\* A variant of Callback.disable that leaves the latch as it is.
DisableNot(cb) == cb

\* Callback.disable
Disable(cb) == [cb EXCEPT !.disabled = TRUE]

\* An entry of the trace of a call: what happened (ev), to which callback
\* (c, 0 for none), whether all the dependencies of the callback were S_OK
\* at that moment, and what was returned or raised.
Ev(ev, c, deps_ok, ret) ==
    [ev |-> ev, c |-> c, deps_ok |-> deps_ok, ret |-> ret]

Trace(m, e) == [m EXCEPT !.log = Append(m.log, e)]

\* The function of callback c raises in a step of behaviour beh.
Raises(beh, c) == beh = "cbk_raise" \/ (beh = "second_raises" /\ c = 2)

\* A variant in which the loop of on_dep_ok catches what a callback raises
\* and goes on with the next callback.
Swallow(m, c, deps_ok, exc) == Trace(m, Ev("raise", c, deps_ok, exc))

\* An exception raised in the body of the loop of on_dep_ok: no statement
\* of the loop is in a try block, so it leaves on_dep_ok at once.
Propagate(m, c, deps_ok, exc) ==
    Trace([m EXCEPT !.exc = TRUE], Ev("raise", c, deps_ok, exc))

\* Callback.__call__ followed by the rest of the loop body of on_dep_ok.
\* The function raises; or it registers one task in cb.work and returns
\* cb.work ("ok") or nothing ("cbk_none"); or it leaves cb.work alone and
\* returns a workflow of its own making with one task ("cbk_replace").
\* Then work.add_deps(cbk.deps) on what was returned, which fails on None;
\* cbk.disable(); self.pickle_dump().
ExecuteCallback(m, c, sender, beh) ==
    LET cb == m.callbacks[c]
        obs == [handled |-> handle_sender(cb, sender),
                enabled |-> ~cb.disabled,
                deps_ok |-> DepsAllOk(m.works, cb.deps)]
        m1 == Trace([m EXCEPT
                        !.ncalls[c] = Min2(m.ncalls[c] + 1, 2),
                        !.cbkObs[c] =
                            [handled |-> m.cbkObs[c].handled /\ obs.handled,
                             enabled |-> m.cbkObs[c].enabled /\ obs.enabled,
                             deps_ok |-> m.cbkObs[c].deps_ok /\ obs.deps_ok]],
                    Ev("func", c, obs.deps_ok, ""))
    IN  IF ~can_execute(cb) \/ Raises(beh, c)
        THEN Propagate(m1, c, obs.deps_ok, "Exception")
        ELSE IF beh = "cbk_replace"
        THEN LET m2 == Trace([m1 EXCEPT !.nextid = m1.nextid + 2],
                             Ev("return", c, obs.deps_ok, "replacement"))
                 m3 == Trace(m2, Ev("add_deps", c, obs.deps_ok, ""))
                 m4 == Trace([m3 EXCEPT !.callbacks[c] = Disable(cb)],
                             Ev("disable", c, obs.deps_ok, ""))
             IN  Trace(pickle_dump(m4), Ev("pickle_dump", c, obs.deps_ok, ""))
        ELSE LET m2 == [m1 EXCEPT
                          !.works[cb.work].tasks =
                              Append(@, NewTask({}, m.nextid)),
                          !.nextid = @ + 1]
             IN  IF beh = "cbk_none"
                 THEN Propagate(Trace(m2, Ev("return", c, obs.deps_ok, "None")),
                                c, obs.deps_ok, "AttributeError")
                 ELSE LET m3 == Trace(Trace([m2 EXCEPT !.works[cb.work].deps =
                                         m.works[cb.work].deps \cup cb.deps],
                                         Ev("return", c, obs.deps_ok, "work")),
                                      Ev("add_deps", c, obs.deps_ok, ""))
                          m4 == Trace([m3 EXCEPT !.callbacks[c] = Disable(cb)],
                                      Ev("disable", c, obs.deps_ok, ""))
                      IN  Trace(pickle_dump(m4),
                                Ev("pickle_dump", c, obs.deps_ok, ""))

\* The loop of AbinitFlow.on_dep_ok from callback c on.
RECURSIVE OnDepOkFrom(_, _, _, _)
OnDepOkFrom(m, sender, beh, c) ==
    IF m.exc \/ c > Len(m.callbacks) THEN m
    ELSE LET cb == m.callbacks[c] IN
         IF ~handle_sender(cb, sender)
         THEN OnDepOkFrom(Trace(m, Ev("not_handled", c, TRUE, "")),
                          sender, beh, c + 1)
         ELSE LET m1 == [m EXCEPT !.works = CanExecuteReads(m.works, cb)] IN
              IF ~can_execute(cb)
              THEN OnDepOkFrom(Trace(m1, Ev("cannot_execute", c, TRUE, "")),
                               sender, beh, c + 1)
              ELSE OnDepOkFrom(ExecuteCallback(m1, c, sender, beh),
                               sender, beh, c + 1)

\* AbinitFlow.on_dep_ok(signal, sender)
on_dep_ok(m, sender, beh) ==
    OnDepOkFrom(Trace(m, Ev("on_dep_ok", 0, TRUE, "")), sender, beh, 1)

(* ---------------------------------------------------------------------- *)
(* Signals.  dispatcher.send calls the connected receivers one after the   *)
(* other; an exception of a receiver propagates to the sender.             *)
(* ---------------------------------------------------------------------- *)
OnOkSub(w, sender) == [h |-> "on_ok", w |-> w, sender |-> sender]
OnDepOkSub(sender) == [h |-> "on_dep_ok", w |-> 0, sender |-> sender]

\* dispatcher.send(signal=self.S_OK, sender=self) of workflow w (line 227).
SendWorkOk(m, w, beh) ==
    LET m1 == [m EXCEPT
                 !.npub[w] = Min2(m.npub[w] + 1, 2),
                 !.pubObs[w] =
                     [all_ok |-> m.pubObs[w].all_ok /\ AllOk(m.works, w),
                      finalized |-> m.pubObs[w].finalized /\ m.works[w].finalized,
                      hooked |-> m.pubObs[w].hooked /\ m.nhook[w] > 0]]
    IN  IF OnDepOkSub(<<w, 0>>) \in bus
        THEN on_dep_ok(m1, <<w, 0>>, beh)
        ELSE m1

\* The returncode of the AttrDict on_ok returns: 1 from line 233, 0 from
\* line 219 and from the results of the base class on_all_ok.
OnOkReturncode(ws, w) == IF AllOk(ws, w) THEN 0 ELSE 1

\* A variant of on_ok that tests any(...) instead of all(...).
OnOkAnyOk(m, w, beh) ==
    IF ~\E i \in 1..NTasks(m.works, w) : m.works[w].tasks[i].status = S_OK
    THEN m
    ELSE IF m.works[w].finalized THEN m
    ELSE LET m1 == [m EXCEPT !.nhook[w] = Min2(m.nhook[w] + 1, 2)]
         IN  SendWorkOk([m1 EXCEPT !.works[w].finalized = TRUE], w, beh)

\* A variant of on_ok that compares the statuses with S_DONE.
OnOkWrongStatus(m, w, beh) ==
    IF ~\A i \in 1..NTasks(m.works, w) : m.works[w].tasks[i].status = S_DONE
    THEN m
    ELSE IF m.works[w].finalized THEN m
    ELSE LET m1 == [m EXCEPT !.nhook[w] = Min2(m.nhook[w] + 1, 2)]
         IN  SendWorkOk([m1 EXCEPT !.works[w].finalized = TRUE], w, beh)

\* A variant of on_ok that finalizes whatever the status of the tasks.
OnOkUnchecked(m, w, beh) ==
    IF m.works[w].finalized THEN m
    ELSE SendWorkOk([m EXCEPT !.nhook[w] = Min2(m.nhook[w] + 1, 2),
                              !.works[w].finalized = TRUE], w, beh)

\* A variant of on_ok without the finalized latch.
OnOkNoLatch(m, w, beh) ==
    IF ~AllOk(m.works, w) THEN m
    ELSE SendWorkOk([m EXCEPT !.nhook[w] = Min2(m.nhook[w] + 1, 2),
                              !.works[w].finalized = TRUE], w, beh)

\* BaseWorkflow.on_ok(sender).  The print of self.status at line 226 runs
\* check_status on a workflow whose tasks are all S_OK, which changes nothing.
\* on_all_ok (line 222) is called outside any try block: when it raises
\* (beh = "hook_raise") the exception leaves on_ok.
on_ok(m, w, beh) ==
    IF ~AllOk(m.works, w) THEN m
    ELSE IF m.works[w].finalized THEN m
    ELSE LET m1 == [m EXCEPT !.nhook[w] = Min2(m.nhook[w] + 1, 2)]
         IN  IF beh = "hook_raise" THEN [m1 EXCEPT !.exc = TRUE]
             ELSE SendWorkOk([m1 EXCEPT !.works[w].finalized = TRUE], w, beh)

\* The S_OK signal of task t of workflow w, sent to the connected receivers:
\* the workflow's on_ok, then the flow's on_dep_ok.
SendTaskOk(m, w, t, beh) ==
    LET m1 == IF OnOkSub(w, <<w, t>>) \in bus THEN on_ok(m, w, beh) ELSE m
    IN  IF ~m1.exc /\ OnDepOkSub(<<w, t>>) \in bus
        THEN on_dep_ok(m1, <<w, t>>, beh)
        ELSE m1

(* ---------------------------------------------------------------------- *)
(* check_status.                                                           *)
(* ---------------------------------------------------------------------- *)
\* The outcomes the runner classifies a finished process into.
Results == {S_OK, S_ERROR, S_UNCONVERGED}

\* The tasks of the workflows W that have a process the runner knows.
InFlight(ws, W) ==
    {n \in ExistingNodes(ws) :
        /\ n[1] \in W /\ n[2] > 0
        /\ ws[n[1]].tasks[n[2]].status \in {S_SUB, S_RUN, S_DONE}}

\* Task.check_status: the status after consulting the runner, which reports
\* a task as advanced or not; res classifies a finished process.
Reclassify(st, advanced, res) ==
    IF ~advanced THEN st
    ELSE IF st = S_SUB THEN S_RUN
    ELSE IF st = S_RUN THEN S_DONE
    ELSE IF st = S_DONE THEN res
    ELSE st

\* The first loop of Workflow.check_status from task i on; a task that
\* becomes S_OK sends its S_OK signal.
RECURSIVE PollTasks(_, _, _, _, _, _)
PollTasks(m, w, adv, res, beh, i) ==
    IF m.exc \/ i > NTasks(m.works, w) THEN m
    ELSE LET old == m.works[w].tasks[i].status
             new == Reclassify(old, <<w, i>> \in adv, res)
             m1 == [m EXCEPT !.works[w].tasks[i].status = new]
             m2 == IF new = S_OK /\ old # S_OK
                   THEN SendTaskOk(m1, w, i, beh)
                   ELSE m1
         IN  PollTasks(m2, w, adv, res, beh, i + 1)

\* Workflow.check_status
check_status(m, w, adv, res, beh) ==
    LET m1 == PollTasks(m, w, adv, res, beh, 1)
    IN  IF m1.exc THEN m1
        ELSE [m1 EXCEPT !.works =
                 ReadyPass(m1.works, Checked(m1.works, {w}))]

\* Workflow.status, i.e. get_all_status(only_min=True): an empty workflow
\* answers S_INIT at once; otherwise check_status runs and the minimum of
\* the statuses it leaves is returned (nothing is returned when a handler
\* called by check_status raises).
WorkflowStatus(m, w, adv, res, beh) ==
    IF NTasks(m.works, w) = 0
    THEN [m |-> m, value |-> S_INIT]
    ELSE LET m1 == check_status(m, w, adv, res, beh)
         IN  [m |-> m1, value |-> MinStatus(m1.works[w].tasks, 1)]

\* AbinitFlow.check_status: the workflows in order, from workflow w on.
RECURSIVE FlowCheckFrom(_, _, _, _, _)
FlowCheckFrom(m, adv, res, beh, w) ==
    IF m.exc \/ w > Len(m.works) THEN m
    ELSE FlowCheckFrom(check_status(m, w, adv, res, beh), adv, res, beh, w + 1)

(* ---------------------------------------------------------------------- *)
(* fetch_task_to_run.                                                      *)
(* ---------------------------------------------------------------------- *)
\* Task.is_completed
is_completed(task) == task.status >= S_DONE

\* Task.can_run
can_run(ws, task) == task.status = S_READY /\ DepsAllOk(ws, task.deps)

\* Results of fetch_task_to_run that are not a task index.
StopIteration == 0 - 1
None == 0

\* A variant of fetch_task_to_run that returns the last runnable task.
FetchLast(ws, w) ==
    LET n == NTasks(ws, w)
        runnable == {i \in 1..n : can_run(ws, ws[w].tasks[i])}
    IN  IF \A i \in 1..n : is_completed(ws[w].tasks[i]) THEN StopIteration
        ELSE IF runnable = {} THEN None
        ELSE CHOOSE i \in runnable : \A j \in runnable : j <= i

\* A variant of fetch_task_to_run that raises as soon as one task is
\* completed.
FetchAnyCompleted(ws, w) ==
    LET n == NTasks(ws, w)
        runnable == {i \in 1..n : can_run(ws, ws[w].tasks[i])}
    IN  IF \E i \in 1..n : is_completed(ws[w].tasks[i]) THEN StopIteration
        ELSE IF runnable = {} THEN None
        ELSE CHOOSE i \in runnable : \A j \in runnable : i <= j

\* A variant of fetch_task_to_run that raises only when every task is S_OK.
FetchStopAllOk(ws, w) ==
    LET n == NTasks(ws, w)
        runnable == {i \in 1..n : can_run(ws, ws[w].tasks[i])}
    IN  IF \A i \in 1..n : ws[w].tasks[i].status = S_OK THEN StopIteration
        ELSE IF runnable = {} THEN None
        ELSE CHOOSE i \in runnable : \A j \in runnable : i <= j

\* BaseWorkflow.fetch_task_to_run: the index of the returned task, None, or
\* StopIteration when it raises.
fetch_task_to_run(ws, w) ==
    LET n == NTasks(ws, w)
        runnable == {i \in 1..n : can_run(ws, ws[w].tasks[i])}
    IN  IF \A i \in 1..n : is_completed(ws[w].tasks[i]) THEN StopIteration
        ELSE IF runnable = {} THEN None
        ELSE CHOOSE i \in runnable : \A j \in runnable : i <= j

\* fetch_task_to_run logs "Possible deadlock in fetch_task_to_run!" on the
\* path that returns None (lines 187-190), and on no other path.
FetchWarns(ws, w) == fetch_task_to_run(ws, w) = None

\* The flow after fetch_task_to_run: can_run reads the status of the
\* dependencies of every task the loop looks at.
FetchReads(ws, w) ==
    LET r == fetch_task_to_run(ws, w)
        last == IF r = None THEN NTasks(ws, w) ELSE r
        deps == UNION {ws[w].tasks[i].deps : i \in 1..last}
    IN  IF r = StopIteration THEN ws
        ELSE ReadyPass(ws, Checked(ws, WorksRead(ws, deps)))

(* ---------------------------------------------------------------------- *)
(* Signal connections.                                                     *)
(* ---------------------------------------------------------------------- *)
\* BaseWorkflow.connect_signals for every workflow of ws.
WorkSubs(ws) ==
    {OnOkSub(n[1], n) : n \in TaskNodes(ws)}

\* The loop over self._callbacks of AbinitFlow.connect_signals.
CbkSubs(cbs) ==
    {OnDepOkSub(d) : d \in UNION {cbs[c].deps : c \in 1..Len(cbs)}}

\* A variant of connect_signals that forgets the callbacks.
ConnectWorksOnly(ws, cbs) == WorkSubs(ws)

\* AbinitFlow.connect_signals: the connections it makes.
connect_signals(ws, cbs) == WorkSubs(ws) \cup CbkSubs(cbs)

(* ---------------------------------------------------------------------- *)
(* The state as one record, and its write-back.                            *)
(* ---------------------------------------------------------------------- *)
Mem ==
    [works |-> works, callbacks |-> callbacks, disk |-> disk,
     dumped |-> dumped, nextid |-> nextid, npub |-> npub, nhook |-> nhook,
     pubObs |-> pubObs, ncalls |-> ncalls, cbkObs |-> cbkObs, exc |-> FALSE,
     log |-> <<>>]

Commit(m) ==
    /\ works' = m.works
    /\ callbacks' = m.callbacks
    /\ disk' = m.disk
    /\ dumped' = m.dumped
    /\ nextid' = m.nextid
    /\ npub' = m.npub
    /\ nhook' = m.nhook
    /\ pubObs' = m.pubObs
    /\ ncalls' = m.ncalls
    /\ cbkObs' = m.cbkObs

GoodPub == [all_ok |-> TRUE, finalized |-> TRUE, hooked |-> TRUE]
GoodCbk == [handled |-> TRUE, enabled |-> TRUE, deps_ok |-> TRUE]
NoCounts == [w \in WorkIds |-> 0]
NoPubObs == [w \in WorkIds |-> GoodPub]
NoCalls == [c \in CbkIds |-> 0]
NoCbkObs == [c \in CbkIds |-> GoodCbk]
NoFlow == [works |-> <<>>, callbacks |-> <<>>]

ghosts == <<npub, nhook, pubObs, ncalls, cbkObs>>

\* No submit_tasks loop is running.
Idle ==
    [kind |-> "Workflow", pc |-> "idle", niter |-> 0, max_niter |-> 0,
     nvals |-> 0, exit_at |-> 0, pre |-> 0, pulled |-> 0, strat |-> <<>>,
     started |-> <<>>, log |-> <<>>, raised |-> "none", escaped |-> "none"]

\* check_conv has not been called.
NoConv == [values |-> <<>>, tol |-> 0, min_numpts |-> 0, called |-> FALSE,
           raised |-> "none", value |-> 0]

\* No call of the layout operations has been made, no Workflow object exists.
NoCall == [op |-> "none", h |-> 0, arg |-> <<>>, raised |-> "none"]
NoLayout == [objs |-> <<>>, flow |-> <<>>, last |-> NoCall]

(* ---------------------------------------------------------------------- *)
(* Initial state: AbinitFlow.__init__.                                     *)
(* ---------------------------------------------------------------------- *)
Init ==
    /\ works = <<>>
    /\ callbacks = <<>>
    /\ bus = {}
    /\ disk = NoFile
    /\ phase = "setup"
    /\ nextid = 1
    /\ npub = NoCounts
    /\ nhook = NoCounts
    /\ pubObs = NoPubObs
    /\ ncalls = NoCalls
    /\ cbkObs = NoCbkObs
    /\ dumped = NoFlow
    /\ loop = Idle
    /\ layout = NoLayout
    /\ conv = NoConv

(* ---------------------------------------------------------------------- *)
(* Registration (the driver registers before it builds the flow).          *)
(* ---------------------------------------------------------------------- *)
\* The nodes a task appended to workflow w may depend on: nodes of earlier
\* workflows and earlier tasks of w, which keeps the graph acyclic.
Upstream(ws, w) ==
    {n \in ExistingNodes(ws) : n[1] < w \/ (n[1] = w /\ n[2] > 0)}

\* AbinitFlow.register_work(work, deps)
register_work ==
    /\ phase = "setup"
    /\ Len(works) < MaxWorks
    /\ \E deps \in DepChoices(ExistingNodes(works)) :
          works' = Append(works, NewWork(deps, nextid))
    /\ nextid' = nextid + 1
    /\ UNCHANGED <<callbacks, bus, disk, phase, ghosts, dumped>>
    /\ UNCHANGED <<loop, layout, conv>>

\* A variant of Workflow.register that inserts the new task at the front.
RegisterFront ==
    /\ phase = "setup"
    /\ \E w \in 1..Len(works) :
          /\ NTasks(works, w) < MaxTasks
          /\ Cardinality(TaskNodes(works)) < MaxFlowTasks
          /\ \A c \in 1..Len(callbacks) : callbacks[c].work # w
          /\ works' = [works EXCEPT ![w].tasks =
                          <<NewTask({}, nextid)>> \o @]
    /\ nextid' = nextid + 1
    /\ UNCHANGED <<callbacks, bus, disk, phase, ghosts, dumped>>
    /\ UNCHANGED <<loop, layout, conv>>

\* Workflow.register(obj, deps)
register ==
    /\ phase = "setup"
    /\ \E w \in 1..Len(works) :
          /\ NTasks(works, w) < MaxTasks
          /\ Cardinality(TaskNodes(works)) < MaxFlowTasks
          /\ \A c \in 1..Len(callbacks) : callbacks[c].work # w
          /\ \E deps \in TaskDepChoices(Upstream(works, w)) :
                works' = [works EXCEPT ![w].tasks =
                             Append(@, NewTask(deps, nextid))]
    /\ nextid' = nextid + 1
    /\ UNCHANGED <<callbacks, bus, disk, phase, ghosts, dumped>>
    /\ UNCHANGED <<loop, layout, conv>>

\* A variant of register_cbk without the test of the dependencies.
RegisterCbkUnchecked ==
    /\ phase = "setup"
    /\ Len(works) < MaxWorks
    /\ Len(callbacks) < MaxCbks
    /\ \E deps \in DepChoices(ExistingNodes(works)) :
          /\ works' = Append(works, NewWork(deps, nextid))
          /\ callbacks' = Append(callbacks,
                [work |-> Len(works) + 1, deps |-> deps, disabled |-> FALSE])
    /\ nextid' = nextid + 1
    /\ UNCHANGED <<bus, disk, phase, ghosts, dumped>>
    /\ UNCHANGED <<loop, layout, conv>>

\* AbinitFlow.register_cbk(cbk, cbk_data, deps, work_class): the workflow is
\* appended before the dependencies are looked at; with no dependency the
\* call raises after the append.
register_cbk ==
    /\ phase = "setup"
    /\ Len(works) < MaxWorks
    /\ Len(callbacks) < MaxCbks
    /\ \E deps \in DepChoices(ExistingNodes(works)) :
          IF deps = {}
          THEN /\ works' = Append(works, NewWork({}, nextid))
               /\ callbacks' = callbacks
          ELSE /\ works' = Append(works, NewWork(deps, nextid))
               /\ callbacks' = Append(callbacks,
                     [work |-> Len(works) + 1, deps |-> deps,
                      disabled |-> FALSE])
    /\ nextid' = nextid + 1
    /\ UNCHANGED <<bus, disk, phase, ghosts, dumped>>
    /\ UNCHANGED <<loop, layout, conv>>

(* ---------------------------------------------------------------------- *)
(* Build, dump, crash, load.                                               *)
(* ---------------------------------------------------------------------- *)
\* AbinitFlow.build_and_pickle_dump up to the open() of pickle_dump:
\* build connects on_ok inside each workflow (AbinitFlow.build does not call
\* the flow's connect_signals); open(filepath, "wb") truncates the file.
build_and_pickle_dump ==
    /\ phase = "setup"
    /\ Len(works) > 0
    /\ bus' = bus \cup WorkSubs(works)
    /\ disk' = Truncated
    /\ phase' = "dumping"
    /\ UNCHANGED <<works, callbacks, nextid, ghosts, dumped>>
    /\ UNCHANGED <<loop, layout, conv>>

\* pickle.dump(self, fh) and the close of the file.
pickle_dump_write ==
    /\ phase = "dumping"
    /\ Commit(pickle_dump(Mem))
    /\ phase' = "run"
    /\ UNCHANGED bus
    /\ UNCHANGED <<loop, layout, conv>>

\* AbinitFlow.connect_signals() called by the driver.
flow_connect_signals ==
    /\ phase = "run"
    /\ bus' = bus \cup connect_signals(works, callbacks)
    /\ bus' # bus
    /\ UNCHANGED <<works, callbacks, disk, phase, nextid, ghosts, dumped>>
    /\ UNCHANGED <<loop, layout, conv>>

\* The driver process dies; the file keeps what was written, or is cut
\* short when a dump (the one in progress, or one a handler was making)
\* had opened it.
crash ==
    /\ phase \in {"dumping", "run"}
    /\ phase' = "dead"
    /\ \/ disk' = disk
       \/ disk' = Truncated
    /\ works' = <<>>
    /\ callbacks' = <<>>
    /\ bus' = {}
    /\ npub' = NoCounts
    /\ nhook' = NoCounts
    /\ pubObs' = NoPubObs
    /\ ncalls' = NoCalls
    /\ cbkObs' = NoCbkObs
    /\ UNCHANGED <<nextid, dumped>>
    /\ UNCHANGED <<loop, layout, conv>>

\* AbinitFlow.pickle_load(filepath) in a new driver process: unpickle,
\* then flow.connect_signals().
pickle_load ==
    /\ phase = "dead"
    /\ disk.kind = "full"
    /\ works' = UnpickleWorks(disk)
    /\ callbacks' = UnpickleCallbacks(disk)
    /\ bus' = connect_signals(works', callbacks')
    /\ phase' = "run"
    /\ UNCHANGED <<disk, nextid, ghosts, dumped>>
    /\ UNCHANGED <<loop, layout, conv>>

(* ---------------------------------------------------------------------- *)
(* Run-time steps of the driver.                                           *)
(* ---------------------------------------------------------------------- *)
\* The inputs of a step that can make a difference in the current state.
ResultChoices(adv) ==
    IF \E n \in adv : works[n[1]].tasks[n[2]].status = S_DONE
    THEN Results ELSE {S_OK}

BehChoices ==
    IF \E c \in 1..Len(callbacks) : ~callbacks[c].disabled
    THEN Behaviours ELSE {"ok"}

\* Workflow.check_status() on one workflow.
workflow_check_status ==
    /\ phase = "run"
    /\ \E w \in 1..Len(works) :
       \E adv \in SUBSET InFlight(works, {w}) :
       \E res \in ResultChoices(adv), beh \in BehChoices :
          Commit(check_status(Mem, w, adv, res, beh))
    /\ UNCHANGED <<bus, phase>>
    /\ UNCHANGED <<loop, layout, conv>>

\* AbinitFlow.check_status()
flow_check_status ==
    /\ phase = "run"
    /\ \E adv \in SUBSET InFlight(works, 1..Len(works)) :
       \E res \in ResultChoices(adv), beh \in BehChoices :
          Commit(FlowCheckFrom(Mem, adv, res, beh, 1))
    /\ UNCHANGED <<bus, phase>>
    /\ UNCHANGED <<loop, layout, conv>>

\* The launcher: task = work.fetch_task_to_run(); task.start().
\* Task.start leaves the task submitted (S_SUB).
submit ==
    /\ phase = "run"
    /\ \E w \in 1..Len(works) :
          LET r == fetch_task_to_run(works, w)
              ws == FetchReads(works, w)
          IN  /\ r > 0
              /\ works' = [ws EXCEPT ![w].tasks[r].status = S_SUB]
    /\ UNCHANGED <<callbacks, bus, disk, phase, nextid, ghosts, dumped>>
    /\ UNCHANGED <<loop, layout, conv>>

\* A task that is S_OK sends its S_OK signal again.
resend_ok ==
    /\ phase = "run"
    /\ \E n \in ExistingNodes(works), beh \in BehChoices :
          /\ n[2] > 0
          /\ works[n[1]].tasks[n[2]].status = S_OK
          /\ Commit(SendTaskOk(Mem, n[1], n[2], beh))
          /\ <<works', callbacks', ghosts'>> # <<works, callbacks, ghosts>>
    /\ UNCHANGED <<bus, phase>>
    /\ UNCHANGED <<loop, layout, conv>>

Next ==
    \/ register_work
    \/ register
    \/ register_cbk
    \/ build_and_pickle_dump
    \/ pickle_dump_write
    \/ flow_connect_signals
    \/ crash
    \/ pickle_load
    \/ workflow_check_status
    \/ flow_check_status
    \/ submit
    \/ resend_ok

Spec == Init /\ [][Next]_vars

(* ====================================================================== *)
(* A workflow driven on its own by Workflow.start(): build, _setup and     *)
(* the default submit_tasks, which blocks the driver until it returns.     *)
(* ====================================================================== *)
\* Task.start: the task is submitted.
TaskStart(ws, w, i) == [ws EXCEPT ![w].tasks[i].status = S_SUB]

\* Task.wait: returns when the process of the task has exited.
TaskWait(ws, w, i) == [ws EXCEPT ![w].tasks[i].status = S_DONE]

\* The inputs of IterativeWorkflow.__init__ and of its run: max_niter, the
\* number of strategies the generator yields, and the iteration at which
\* exit_iteration first answers exit (MaxVals + 1: not before the generator
\* is exhausted).
IterInputs ==
    {[Idle EXCEPT !.kind = "IterativeWorkflow", !.max_niter = mx,
                  !.nvals = n, !.exit_at = k] :
        mx \in (0 - 1)..(MaxVals + 1), n \in 0..MaxVals, k \in 1..(MaxVals + 1)}

\* Workflow.__init__ / IterativeWorkflow.__init__ by the user: one workflow,
\* no flow around it.
WorkInit ==
    /\ works = <<NewWork({}, 1)>>
    /\ callbacks = <<>>
    /\ bus = {}
    /\ disk = NoFile
    /\ phase = "setup"
    /\ nextid = 2
    /\ npub = NoCounts
    /\ nhook = NoCounts
    /\ pubObs = NoPubObs
    /\ ncalls = NoCalls
    /\ cbkObs = NoCbkObs
    /\ dumped = NoFlow
    /\ loop \in {Idle} \cup IterInputs
    /\ layout = NoLayout
    /\ conv = NoConv

\* Workflow.start: build (which connects on_ok to the tasks), _setup, then
\* submit_tasks is entered; the override of IterativeWorkflow begins with
\* self.niter = 1.
work_start ==
    /\ phase = "setup"
    /\ loop.pc = "idle"
    /\ phase' = "run"
    /\ bus' = bus \cup WorkSubs(works)
    /\ loop' = [loop EXCEPT
                  !.pc = IF loop.kind = "Workflow" THEN "start" ELSE "top",
                  !.niter = 1,
                  !.pre = NTasks(works, 1)]
    /\ UNCHANGED <<works, callbacks, disk, nextid, ghosts, dumped, layout, conv>>

\* Workflow.submit_tasks, `for task in self: task.start(*args, **kwargs)`.
serial_task_start ==
    /\ loop.kind = "Workflow"
    /\ loop.pc = "start"
    /\ loop.niter <= NTasks(works, 1)
    /\ works' = TaskStart(works, 1, loop.niter)
    /\ loop' = [loop EXCEPT !.pc = "wait",
                            !.started = Append(@, loop.niter),
                            !.log = Append(@, "start")]
    /\ UNCHANGED <<callbacks, bus, disk, phase, nextid, ghosts, dumped, layout, conv>>

\* A variant of the loop body that goes on to the next task without wait().
SerialNoWait ==
    /\ loop.kind = "Workflow"
    /\ loop.pc = "wait"
    /\ loop' = [loop EXCEPT !.pc = "start", !.niter = @ + 1]
    /\ UNCHANGED <<works, callbacks, bus, disk, phase, nextid, ghosts, dumped, layout, conv>>

\* Workflow.submit_tasks, `task.wait()`, then the next turn of the for loop.
serial_task_wait ==
    /\ loop.kind = "Workflow"
    /\ loop.pc = "wait"
    /\ works' = TaskWait(works, 1, loop.niter)
    /\ loop' = [loop EXCEPT !.pc = "start", !.niter = @ + 1,
                            !.log = Append(@, "wait")]
    /\ UNCHANGED <<callbacks, bus, disk, phase, nextid, ghosts, dumped, layout, conv>>

\* The for loop of Workflow.submit_tasks is over and start returns.
serial_return ==
    /\ loop.kind = "Workflow"
    /\ loop.pc = "start"
    /\ loop.niter > NTasks(works, 1)
    /\ loop' = [loop EXCEPT !.pc = "done"]
    /\ UNCHANGED <<works, callbacks, bus, disk, phase, nextid, ghosts, dumped, layout, conv>>

\* What on_all_ok of the workflow does when it is called: the hook of the
\* base class returns, the hook of a subclass may raise.
HookChoices ==
    IF works[1].finalized THEN {"ok"} ELSE {"ok", "hook_raise"}

\* Workflow.check_status() called by the driver, which is not inside
\* submit_tasks at that time; escaped names what left the call.
work_check_status ==
    /\ loop.pc \in {"idle", "done"}
    /\ \E adv \in SUBSET InFlight(works, {1}) :
       \E res \in ResultChoices(adv), beh \in HookChoices :
          LET m == check_status(Mem, 1, adv, res, beh)
          IN  /\ Commit(m)
              /\ loop' = [loop EXCEPT
                     !.escaped = IF m.exc THEN "Exception" ELSE "none"]
    /\ UNCHANGED <<bus, phase, layout, conv>>

(* ---------------------------------------------------------------------- *)
(* IterativeWorkflow.submit_tasks and next_task.                           *)
(* ---------------------------------------------------------------------- *)
\* A variant of the test of the iteration limit that stops one turn early.
IterLimitOffByOne(l) == l.niter >= l.max_niter /\ l.max_niter > 0

\* `self.niter > self.max_niter > 0`
IterLimitReached(l) == l.niter > l.max_niter /\ l.max_niter > 0

\* exit_iteration at iteration niter: data["exit"].
ExitIteration(l) == l.niter = l.exit_at

\* `if self.niter > self.max_niter > 0: break`
iter_limit ==
    /\ loop.kind = "IterativeWorkflow"
    /\ loop.pc = "top"
    /\ IterLimitReached(loop)
    /\ loop' = [loop EXCEPT !.pc = "done", !.log = Append(@, "limit")]
    /\ UNCHANGED <<works, callbacks, bus, disk, phase, nextid, ghosts, dumped, layout, conv>>

\* next_task: next(self.strategy_generator) raises StopIteration, which
\* next_task lets through and submit_tasks answers with break.
iter_exhausted ==
    /\ loop.kind = "IterativeWorkflow"
    /\ loop.pc = "top"
    /\ ~IterLimitReached(loop)
    /\ loop.pulled = loop.nvals
    /\ loop' = [loop EXCEPT !.pc = "done", !.log = Append(@, "exhausted")]
    /\ UNCHANGED <<works, callbacks, bus, disk, phase, nextid, ghosts, dumped, layout, conv>>

\* next_task: the next strategy is pulled and registered; then
\* `assert len(self) == self.niter`, and self[-1] is returned.
iter_next_task ==
    /\ loop.kind = "IterativeWorkflow"
    /\ loop.pc = "top"
    /\ ~IterLimitReached(loop)
    /\ loop.pulled < loop.nvals
    /\ works' = [works EXCEPT ![1].tasks = Append(@, NewTask({}, nextid))]
    /\ nextid' = nextid + 1
    /\ loop' = [loop EXCEPT
                  !.pulled = @ + 1,
                  !.strat = Append(@, loop.pulled + 1),
                  !.log = Append(@, "next"),
                  !.pc = IF NTasks(works, 1) + 1 = loop.niter
                         THEN "start" ELSE "done",
                  !.raised = IF NTasks(works, 1) + 1 = loop.niter
                             THEN "none" ELSE "AssertionError"]
    /\ UNCHANGED <<callbacks, bus, disk, phase, ghosts, dumped, layout, conv>>

\* `task.start(*args, **kwargs)` on the task next_task returned.
iter_task_start ==
    /\ loop.kind = "IterativeWorkflow"
    /\ loop.pc = "start"
    /\ works' = TaskStart(works, 1, NTasks(works, 1))
    /\ loop' = [loop EXCEPT !.pc = "wait",
                            !.started = Append(@, NTasks(works, 1)),
                            !.log = Append(@, "start")]
    /\ UNCHANGED <<callbacks, bus, disk, phase, nextid, ghosts, dumped, layout, conv>>

\* A variant of the loop body without task.wait().
IterNoWait ==
    /\ loop.kind = "IterativeWorkflow"
    /\ loop.pc = "wait"
    /\ loop' = [loop EXCEPT !.pc = "exit"]
    /\ UNCHANGED <<works, callbacks, bus, disk, phase, nextid, ghosts, dumped, layout, conv>>

\* `task.wait()`
iter_task_wait ==
    /\ loop.kind = "IterativeWorkflow"
    /\ loop.pc = "wait"
    /\ works' = TaskWait(works, 1, NTasks(works, 1))
    /\ loop' = [loop EXCEPT !.pc = "exit", !.log = Append(@, "wait")]
    /\ UNCHANGED <<callbacks, bus, disk, phase, nextid, ghosts, dumped, layout, conv>>

\* `data = self.exit_iteration(); if data["exit"]: break; self.niter += 1`
iter_exit_iteration ==
    /\ loop.kind = "IterativeWorkflow"
    /\ loop.pc = "exit"
    /\ loop' = IF ExitIteration(loop)
               THEN [loop EXCEPT !.pc = "done", !.log = Append(@, "exit")]
               ELSE [loop EXCEPT !.pc = "top", !.niter = @ + 1,
                                 !.log = Append(@, "continue")]
    /\ UNCHANGED <<works, callbacks, bus, disk, phase, nextid, ghosts, dumped, layout, conv>>

\* The steps of a running submit_tasks.
LoopStep ==
    \/ serial_task_start
    \/ serial_task_wait
    \/ serial_return
    \/ iter_limit
    \/ iter_exhausted
    \/ iter_next_task
    \/ iter_task_start
    \/ iter_task_wait
    \/ iter_exit_iteration

WorkNext ==
    \/ register
    \/ work_start
    \/ serial_task_start
    \/ serial_task_wait
    \/ serial_return
    \/ iter_limit
    \/ iter_exhausted
    \/ iter_next_task
    \/ iter_task_start
    \/ iter_task_wait
    \/ iter_exit_iteration
    \/ work_check_status

\* submit_tasks is sequential code: once entered it goes on, and wait()
\* returns when the process of the task exits.
WorkSpec == WorkInit /\ [][WorkNext]_vars /\ WF_vars(LoopStep)

(* ====================================================================== *)
(* Working directories and managers: Workflow objects made by the user,    *)
(* their tasks, and their registration in a flow.                          *)
(* ====================================================================== *)
\* A path is the sequence of its components; an absolute path begins
\* with "/".  Cwd is the current directory of the driver process.
Cwd == <<"/", "cwd">>

\* os.path.isabs
isabs(p) == Len(p) > 0 /\ p[1] = "/"

\* os.path.abspath
abspath(p) == IF isabs(p) THEN p ELSE Cwd \o p

\* os.path.join(p, name) with a relative name
join(p, name) == Append(p, name)

\* "task_" + str(i) and "work_" + str(i)
TaskName(i) == <<"task_0", "task_1", "task_2", "task_3", "task_4">>[i + 1]
WorkName(i) == <<"work_0", "work_1", "work_2", "work_3", "work_4">>[i + 1]

\* The workdir of the flow as AbinitFlow.__init__ stores it (an abspath).
FlowDir == <<"/", "flow">>

\* The paths the user passes: a relative one, its absolute form, and the
\* directory of the first slot of the flow.
RawPaths == {<<"rel">>, <<"/", "cwd", "rel">>, <<"/", "flow", "work_0">>}

\* hasattr(obj, "workdir") is false / hasattr(obj, "manager") is false.
NoAttr == <<>>
NoManager == 0

\* Manager objects are named by a number: the one the user holds, and the
\* deep copy AbinitFlow.__init__ keeps.
UserManager == 1
FlowManager == 2

\* Task(obj, task_workdir, manager): an argument that is None sets nothing.
LayoutTask(workdir, manager) == [workdir |-> workdir, manager |-> manager]

\* The attributes of a Workflow before __init__ sets any.
BareWorkflow ==
    [workdir |-> NoAttr, indir |-> NoAttr, outdir |-> NoAttr,
     tmpdir |-> NoAttr, manager |-> NoManager, tasks |-> <<>>]

\* The manager objects some workflow, task or the flow refers to.
LiveManagers(l) ==
    {UserManager, FlowManager}
    \cup {l.objs[h].manager : h \in 1..Len(l.objs)}
    \cup UNION {{l.objs[h].tasks[i].manager : i \in 1..Len(l.objs[h].tasks)} :
                   h \in 1..Len(l.objs)}

\* manager.deepcopy(): an object that did not exist before.
deepcopy(l, manager) ==
    LET S == LiveManagers(l) \cup {manager}
    IN  1 + (CHOOSE x \in S : \A y \in S : y <= x)

\* Workflow.set_workdir(workdir) on the object o.
set_workdir(o, workdir) ==
    IF o.workdir # NoAttr /\ o.workdir # workdir
    THEN [o |-> o, raised |-> "ValueError"]
    ELSE [o |-> [o EXCEPT !.workdir = abspath(workdir),
                          !.indir = join(abspath(workdir), "indata"),
                          !.outdir = join(abspath(workdir), "outdata"),
                          !.tmpdir = join(abspath(workdir), "tmpdata")],
          raised |-> "none"]

\* Workflow.set_manager(manager) on the object o: the workflow keeps a deep
\* copy, the tasks are handed the manager itself.
set_manager(l, o, manager) ==
    [o EXCEPT !.manager = deepcopy(l, manager),
              !.tasks = [i \in 1..Len(o.tasks) |->
                            [o.tasks[i] EXCEPT !.manager = manager]]]

\* Workflow.__init__(workdir, manager)
WorkflowInit(l, workdir, manager) ==
    LET o1 == IF workdir = NoAttr THEN BareWorkflow
              ELSE set_workdir(BareWorkflow, workdir).o
    IN  IF manager = NoManager THEN o1 ELSE set_manager(l, o1, manager)

\* Workflow.register: the workdir handed to the new task.
RegisterWorkdir(o) ==
    IF o.workdir = NoAttr THEN NoAttr
    ELSE join(o.workdir, TaskName(Len(o.tasks)))

\* A variant of the per-task directory of allocate that counts from one.
TaskWorkdirOneBased(o, i) == join(o.workdir, TaskName(i))

\* Workflow.allocate: task_workdir of the task at position i (i - 1 is the
\* index enumerate gives).
task_workdir(o, i) == join(o.workdir, TaskName(i - 1))

\* The loop of Workflow.allocate from position i on; raised names the
\* exception that ends it.
RECURSIVE AllocateFrom(_, _)
AllocateFrom(o, i) ==
    IF i > Len(o.tasks) THEN [o |-> o, raised |-> "none"]
    ELSE IF o.tasks[i].manager = NoManager /\ o.manager = NoManager
    THEN [o |-> o, raised |-> "AttributeError"]
    ELSE LET o1 == IF o.tasks[i].manager = NoManager
                   THEN [o EXCEPT !.tasks[i].manager = o.manager]
                   ELSE o
         IN  IF o.workdir = NoAttr
             THEN [o |-> o1, raised |-> "AttributeError"]
             ELSE IF o1.tasks[i].workdir = NoAttr
             THEN AllocateFrom(
                      [o1 EXCEPT !.tasks[i].workdir = task_workdir(o, i)],
                      i + 1)
             ELSE IF o1.tasks[i].workdir # task_workdir(o, i)
             THEN [o |-> o1, raised |-> "ValueError"]
             ELSE AllocateFrom(o1, i + 1)

\* Workflow.allocate
allocate(o) == AllocateFrom(o, 1)

\* A variant of the directory of a registered workflow that counts every
\* Workflow object made so far.
WorkWorkdirByObjects(l) == join(FlowDir, WorkName(Len(l.objs)))

\* AbinitFlow.register_work / register_cbk: work_workdir.
work_workdir(l) == join(FlowDir, WorkName(Len(l.flow)))

\* AbinitFlow.register_work(work, deps, manager) for the object h.
RegisterWork(l, h, manager) ==
    LET m == deepcopy(l, IF manager = NoManager THEN FlowManager ELSE manager)
        r == set_workdir(l.objs[h], work_workdir(l))
    IN  IF r.raised # "none"
        THEN [l |-> l, raised |-> r.raised]
        ELSE [l |-> [l EXCEPT !.objs[h] = set_manager(l, r.o, m),
                              !.flow = Append(l.flow, h)],
              raised |-> "none"]

\* AbinitFlow.register_cbk(cbk, cbk_data, deps, work_class, manager): the
\* workflow is made and appended, then an empty deps raises.
RegisterCbk(l, nodeps, manager) ==
    LET m == deepcopy(l, IF manager = NoManager THEN FlowManager ELSE manager)
        work == WorkflowInit(l, work_workdir(l), m)
    IN  [l |-> [l EXCEPT !.objs = Append(l.objs, work),
                         !.flow = Append(l.flow, Len(l.objs) + 1)],
         raised |-> IF nodeps THEN "ValueError" ELSE "none"]

\* The other variables play no part in these steps.
LayoutOnly ==
    UNCHANGED <<works, callbacks, bus, disk, phase, nextid, ghosts, dumped,
                loop, conv>>

LayoutTasks(l) ==
    UNION {{<<h, i>> : i \in 1..Len(l.objs[h].tasks)} : h \in 1..Len(l.objs)}

\* The user makes a flow and nothing else yet.
LayoutInit ==
    /\ works = <<>>
    /\ callbacks = <<>>
    /\ bus = {}
    /\ disk = NoFile
    /\ phase = "setup"
    /\ nextid = 1
    /\ npub = NoCounts
    /\ nhook = NoCounts
    /\ pubObs = NoPubObs
    /\ ncalls = NoCalls
    /\ cbkObs = NoCbkObs
    /\ dumped = NoFlow
    /\ loop = Idle
    /\ layout = NoLayout
    /\ conv = NoConv

\* Workflow(workdir, manager) by the user.
workflow_init ==
    /\ Len(layout.objs) < MaxObjs
    /\ \E workdir \in {NoAttr} \cup RawPaths,
          manager \in {NoManager, UserManager} :
          layout' = [layout EXCEPT
              !.objs = Append(layout.objs,
                              WorkflowInit(layout, workdir, manager)),
              !.last = [op |-> "Workflow", h |-> Len(layout.objs) + 1,
                        arg |-> <<>>, raised |-> "none"]]
    /\ LayoutOnly

\* work.set_workdir(workdir) by the user.
workflow_set_workdir ==
    /\ \E h \in 1..Len(layout.objs), workdir \in RawPaths :
          LET r == set_workdir(layout.objs[h], workdir)
          IN  layout' = [layout EXCEPT
                  !.objs[h] = r.o,
                  !.last = [op |-> "set_workdir", h |-> h, arg |-> workdir,
                            raised |-> r.raised]]
    /\ LayoutOnly

\* work.register(obj, manager=manager) by the user.
workflow_register ==
    /\ Cardinality(LayoutTasks(layout)) < MaxLayoutTasks
    /\ \E h \in 1..Len(layout.objs), manager \in {NoManager, UserManager} :
          layout' = [layout EXCEPT
              !.objs[h].tasks =
                  Append(layout.objs[h].tasks,
                         LayoutTask(RegisterWorkdir(layout.objs[h]), manager)),
              !.last = [op |-> "register", h |-> h, arg |-> <<>>,
                        raised |-> "none"]]
    /\ LayoutOnly

\* task.set_workdir(workdir) by the user on a task that has none: a
\* directory of the user's, or /a/task_i.
task_set_workdir ==
    /\ \E n \in LayoutTasks(layout) :
       \E workdir \in {<<"/", "a">>, <<"/", "a", TaskName(n[2] - 1)>>} :
          /\ layout.objs[n[1]].tasks[n[2]].workdir = NoAttr
          /\ layout' = [layout EXCEPT
                 !.objs[n[1]].tasks[n[2]].workdir = workdir,
                 !.last = [op |-> "task.set_workdir", h |-> n[1],
                           arg |-> <<>>, raised |-> "none"]]
    /\ LayoutOnly

\* work.allocate()
workflow_allocate ==
    /\ \E h \in 1..Len(layout.objs) :
          LET r == allocate(layout.objs[h])
          IN  layout' = [layout EXCEPT
                  !.objs[h] = r.o,
                  !.last = [op |-> "allocate", h |-> h, arg |-> <<>>,
                            raised |-> r.raised]]
    /\ LayoutOnly

\* flow.register_work(work, manager=manager)
flow_register_work ==
    /\ Len(layout.flow) < MaxObjs
    /\ \E h \in 1..Len(layout.objs), manager \in {NoManager, UserManager} :
          LET r == RegisterWork(layout, h, manager)
          IN  layout' = [r.l EXCEPT
                  !.last = [op |-> "register_work", h |-> h, arg |-> <<>>,
                            raised |-> r.raised]]
    /\ LayoutOnly

\* flow.register_cbk(cbk, cbk_data, deps, work_class, manager=manager)
flow_register_cbk ==
    /\ Len(layout.objs) < MaxObjs
    /\ \E nodeps \in BOOLEAN, manager \in {NoManager, UserManager} :
          LET r == RegisterCbk(layout, nodeps, manager)
          IN  layout' = [r.l EXCEPT
                  !.last = [op |-> "register_cbk", h |-> Len(layout.objs) + 1,
                            arg |-> <<>>, raised |-> r.raised]]
    /\ LayoutOnly

LayoutNext ==
    \/ workflow_init
    \/ workflow_set_workdir
    \/ workflow_register
    \/ task_set_workdir
    \/ workflow_allocate
    \/ flow_register_work
    \/ flow_register_cbk

LayoutSpec == LayoutInit /\ [][LayoutNext]_vars

(* ====================================================================== *)
(* A flow with several callbacks on one upstream workflow, taken up after  *)
(* it was registered, built and loaded again (pickle_load connects the     *)
(* signals) and the upstream tasks were submitted, and driven by           *)
(* check_status.                                                           *)
(* ====================================================================== *)
\* The upstream workflow (slot 1) with nt submitted tasks, then one empty
\* workflow per callback, in the order of registration; ds[j] is the deps
\* of callback j.
DispatchFlow(nt, ds) ==
    [works |->
        <<[NewWork({}, 1) EXCEPT
              !.tasks = [i \in 1..nt |->
                            [NewTask({}, 1 + i) EXCEPT !.status = S_SUB]]]>>
        \o [j \in 1..Len(ds) |-> NewWork(ds[j], 1 + nt + j)],
     callbacks |->
        [j \in 1..Len(ds) |->
            [work |-> 1 + j, deps |-> ds[j], disabled |-> FALSE]]]

\* What a callback is registered on: the upstream workflow, its first
\* task, or both of its tasks.
DispatchDeps == {{<<1, 0>>}, {<<1, 1>>}, {<<1, 1>>, <<1, 2>>}}

\* The flows of that shape: two upstream tasks and up to MaxDispatchCbks
\* callbacks.
DispatchFlows ==
    {DispatchFlow(2, ds) :
        ds \in UNION {[1..k -> DispatchDeps] : k \in 1..MaxDispatchCbks}}

DispatchInit ==
    /\ \E f \in DispatchFlows :
          /\ works = f.works
          /\ callbacks = f.callbacks
          /\ bus = connect_signals(f.works, f.callbacks)
          /\ disk = Pickle(f.works, f.callbacks)
          /\ dumped = f
          /\ nextid = 1 + Cardinality(ExistingNodes(f.works))
          /\ npub = [w \in 1..Len(f.works) |-> 0]
          /\ nhook = [w \in 1..Len(f.works) |-> 0]
          /\ pubObs = [w \in 1..Len(f.works) |-> GoodPub]
          /\ ncalls = [c \in 1..Len(f.callbacks) |-> 0]
          /\ cbkObs = [c \in 1..Len(f.callbacks) |-> GoodCbk]
    /\ phase = "run"
    /\ loop = Idle
    /\ layout = NoLayout
    /\ conv = NoConv

\* What the functions of the callbacks do in a step.
DispatchBehaviours ==
    {"ok", "cbk_raise", "cbk_none", "cbk_replace", "second_raises"}

DispatchChoices ==
    IF \E c \in 1..Len(callbacks) : ~callbacks[c].disabled
    THEN DispatchBehaviours ELSE {"ok"}

\* The write-back of a call, with its trace and what left it.
DispatchCommit(m) ==
    /\ Commit(m)
    /\ loop' = [loop EXCEPT
                  !.log = m.log,
                  !.escaped = IF m.exc THEN "Exception" ELSE "none"]

\* Workflow.check_status() on one workflow; log keeps the trace of the
\* call and escaped names what left it.
dispatch_check_status ==
    /\ phase = "run"
    /\ \E w \in 1..Len(works) :
       \E adv \in SUBSET InFlight(works, {w}) :
       \E res \in ResultChoices(adv), beh \in DispatchChoices :
          DispatchCommit(check_status(Mem, w, adv, res, beh))
    /\ UNCHANGED <<bus, phase, layout, conv>>

DispatchNext == dispatch_check_status

DispatchSpec == DispatchInit /\ [][DispatchNext]_vars

(* ====================================================================== *)
(* CPU accounting.                                                        *)
(* ====================================================================== *)
\* task.tot_ncpus: the CPUs the task asks for, one or two.
tot_ncpus(t) == 1 + (t.node_id % 2)

\* ncpus = 0; for task in self: if task.status in sts: ncpus += task.tot_ncpus
RECURSIVE NcpusFrom(_, _, _)
NcpusFrom(ts, sts, i) ==
    IF i > Len(ts) THEN 0
    ELSE (IF ts[i].status \in sts THEN tot_ncpus(ts[i]) ELSE 0)
         + NcpusFrom(ts, sts, i + 1)

\* BaseWorkflow.ncpus_reserved, ncpus_allocated, ncpus_inuse
ncpus_reserved(ws, w) == NcpusFrom(ws[w].tasks, {S_SUB}, 1)
ncpus_allocated(ws, w) == NcpusFrom(ws[w].tasks, {S_SUB, S_RUN}, 1)
ncpus_inuse(ws, w) == NcpusFrom(ws[w].tasks, {S_RUN}, 1)

\* getattr(work, name) for the names the flow reads; a workflow has no
\* attribute of any other name.
WorkAttr(ws, w, name) ==
    IF name = "ncpus_reserved"
    THEN [raised |-> "none", value |-> ncpus_reserved(ws, w)]
    ELSE IF name = "ncpus_allocated"
    THEN [raised |-> "none", value |-> ncpus_allocated(ws, w)]
    ELSE IF name = "ncpus_inuse"
    THEN [raised |-> "none", value |-> ncpus_inuse(ws, w)]
    ELSE [raised |-> "AttributeError", value |-> 0]

\* sum(getattr(work, name) for work in self), from workflow w on.
RECURSIVE FlowSumFrom(_, _, _)
FlowSumFrom(ws, name, w) ==
    IF w > Len(ws) THEN [raised |-> "none", value |-> 0]
    ELSE LET a == WorkAttr(ws, w, name) IN
         IF a.raised # "none" THEN a
         ELSE LET rest == FlowSumFrom(ws, name, w + 1) IN
              IF rest.raised # "none" THEN rest
              ELSE [raised |-> "none", value |-> a.value + rest.value]

\* AbinitFlow.ncpus_reserved reads work.ncpus_reverved (line 1383).
flow_ncpus_reserved(ws) == FlowSumFrom(ws, "ncpus_reverved", 1)
flow_ncpus_allocated(ws) == FlowSumFrom(ws, "ncpus_allocated", 1)
flow_ncpus_inuse(ws) == FlowSumFrom(ws, "ncpus_inuse", 1)

(* ====================================================================== *)
(* Node identifiers in use.                                               *)
(* ====================================================================== *)
\* ids = []; for work in self: ids.append(work.node_id); for task in work:
\* ids.append(task.node_id), from workflow w on.
RECURSIVE IdsFrom(_, _)
IdsFrom(ws, w) ==
    IF w > Len(ws) THEN <<>>
    ELSE <<ws[w].node_id>>
         \o [i \in 1..NTasks(ws, w) |-> ws[w].tasks[i].node_id]
         \o IdsFrom(ws, w + 1)

\* AbinitFlow.used_ids: the assert at line 1413 reads the name ids_set,
\* which is bound nowhere; it is skipped when python runs with -O.
used_ids(ws, optimize) ==
    LET ids == IdsFrom(ws, 1)
        used == {ids[k] : k \in 1..Len(ids)}
    IN  IF ~optimize THEN [raised |-> "NameError", value |-> {}]
        ELSE [raised |-> "none", value |-> used]

\* AbinitFlow.generate_new_nodeid: `import itertools`, then the loop reads
\* the name intertools (line 1422), which is bound nowhere.
generate_new_nodeid(ws, optimize) ==
    LET used == used_ids(ws, optimize)
    IN  IF used.raised # "none" THEN [raised |-> used.raised, value |-> 0]
        ELSE [raised |-> "NameError", value |-> 0]

(* ====================================================================== *)
(* A flow of two workflows that were filled by Workflow.register before    *)
(* register_work added them to the flow: Workflow.register takes any node  *)
(* as a dependency, so the task of the first workflow may wait for nodes   *)
(* of the second.  The flow is taken up built and connected.               *)
(* ====================================================================== *)
\* The first workflow has one task with dependencies da; the second has two
\* tasks, the later one with dependencies db.
OrderFlows ==
    {<<[NewWork({}, 1) EXCEPT !.tasks = <<NewTask(da, 3)>>],
       [NewWork({}, 2) EXCEPT !.tasks = <<NewTask({}, 4), NewTask(db, 5)>>]>> :
        da \in {{}, {<<2, 0>>}, {<<2, 1>>}, {<<2, 2>>}},
        db \in {{}, {<<2, 1>>}}}

OrderInit ==
    /\ works \in OrderFlows
    /\ callbacks = <<>>
    /\ bus = connect_signals(works, <<>>)
    /\ disk = Pickle(works, <<>>)
    /\ dumped = [works |-> works, callbacks |-> <<>>]
    /\ phase = "run"
    /\ nextid = 6
    /\ npub = NoCounts
    /\ nhook = NoCounts
    /\ pubObs = NoPubObs
    /\ ncalls = NoCalls
    /\ cbkObs = NoCbkObs
    /\ loop = Idle
    /\ layout = NoLayout
    /\ conv = NoConv

OrderNext ==
    \/ workflow_check_status
    \/ flow_check_status
    \/ submit

OrderSpec == OrderInit /\ [][OrderNext]_vars

(* ====================================================================== *)
(* An IterativeWorkflow whose user also calls next_task directly and       *)
(* calls submit_tasks again after it has returned or raised.               *)
(* ====================================================================== *)
\* IterativeWorkflow.next_task called by the user outside submit_tasks:
\* the strategy is pulled and registered, then the assert compares
\* len(self) with self.niter, which nothing but submit_tasks sets.
next_task ==
    /\ loop.kind = "IterativeWorkflow"
    /\ loop.pc \in {"idle", "done"}
    /\ loop.pulled < loop.nvals
    /\ works' = [works EXCEPT ![1].tasks = Append(@, NewTask({}, nextid))]
    /\ nextid' = nextid + 1
    /\ loop' = [loop EXCEPT
                  !.pulled = @ + 1,
                  !.strat = Append(@, loop.pulled + 1),
                  !.raised = IF NTasks(works, 1) + 1 = loop.niter
                             THEN "none" ELSE "AssertionError"]
    /\ UNCHANGED <<callbacks, bus, disk, phase, ghosts, dumped, layout, conv>>

\* IterativeWorkflow.submit_tasks entered again on the same object: it
\* begins with self.niter = 1 whatever len(self) is.
submit_tasks_again ==
    /\ loop.kind = "IterativeWorkflow"
    /\ loop.pc = "done"
    /\ loop' = [loop EXCEPT !.pc = "top", !.niter = 1, !.log = <<>>,
                            !.raised = "none", !.pre = NTasks(works, 1)]
    /\ UNCHANGED <<works, callbacks, bus, disk, phase, nextid, ghosts, dumped, layout, conv>>

IterNext ==
    \/ work_start
    \/ next_task
    \/ submit_tasks_again
    \/ iter_limit
    \/ iter_exhausted
    \/ iter_next_task
    \/ iter_task_start
    \/ iter_task_wait
    \/ iter_exit_iteration

IterSpec == WorkInit /\ [][IterNext]_vars

(* ====================================================================== *)
(* check_conv(values, tol, min_numpts, mode="abs", vinf=None), as          *)
(* compute_hints calls it on the energies of a convergence study.          *)
(* ====================================================================== *)
\* The loop `for i in range(numpts-1, -1, -1): if vdiff[i] > tol: break`
\* from index i on: the value of i when the loop is left.  vdiff is indexed
\* from 1 here, so python's vdiff[i] is vdiff[i + 1].
RECURSIVE ConvScan(_, _, _)
ConvScan(vdiff, tol, i) ==
    IF vdiff[i + 1] > tol THEN i
    ELSE IF i = 0 THEN 0
    ELSE ConvScan(vdiff, tol, i - 1)

\* check_conv in mode "abs" with vinf = values[-1]: values[-1] of an empty
\* list and vdiff[-2] of a list of one element raise IndexError.
check_conv(values, tol, min_numpts) ==
    LET numpts == Len(values)
        vdiff == [k \in 1..numpts |->
                     IF values[k] >= values[numpts]
                     THEN values[k] - values[numpts]
                     ELSE values[numpts] - values[k]]
    IN  IF numpts = 0 THEN [raised |-> "IndexError", value |-> 0]
        ELSE IF ~(numpts > min_numpts) THEN [raised |-> "none", value |-> 0 - 1]
        ELSE IF numpts < 2 THEN [raised |-> "IndexError", value |-> 0]
        ELSE IF ~(vdiff[numpts - 1] < tol) THEN [raised |-> "none", value |-> 0 - 1]
        ELSE LET i == ConvScan(vdiff, tol, numpts - 1)
             IN  [raised |-> "none",
                  value |-> IF numpts - i - 1 < min_numpts
                            THEN 0 - 1 ELSE i + 1]

\* The lists of energies, tolerances and minimal numbers of points.
ConvInputs ==
    {[NoConv EXCEPT !.values = v, !.tol = t, !.min_numpts = p] :
        v \in UNION {[1..n -> 0..MaxConvVal] : n \in 0..MaxConvLen},
        t \in 0..MaxConvTol, p \in 0..MaxConvPts}

ConvInit ==
    /\ conv \in ConvInputs
    /\ works = <<>>
    /\ callbacks = <<>>
    /\ bus = {}
    /\ disk = NoFile
    /\ phase = "setup"
    /\ nextid = 1
    /\ npub = NoCounts
    /\ nhook = NoCounts
    /\ pubObs = NoPubObs
    /\ ncalls = NoCalls
    /\ cbkObs = NoCbkObs
    /\ dumped = NoFlow
    /\ loop = Idle
    /\ layout = NoLayout

\* The call check_conv(values, tol, min_numpts=min_numpts).
check_conv_call ==
    /\ ~conv.called
    /\ LET r == check_conv(conv.values, conv.tol, conv.min_numpts)
       IN  conv' = [conv EXCEPT !.called = TRUE, !.raised = r.raised,
                                !.value = r.value]
    /\ UNCHANGED <<works, callbacks, bus, disk, phase, nextid, ghosts,
                   dumped, loop, layout>>

ConvSpec == ConvInit /\ [][check_conv_call]_vars

(* ====================================================================== *)
(* Properties.                                                             *)
(* ====================================================================== *)
\* The tasks present both before and after a step.
StableTasks == TaskNodes(works) \cap TaskNodes(works')

StatusOf(ws, n) == ws[n[1]].tasks[n[2]].status

\* A step of pickle_load: the dead driver is replaced by one with a flow.
LoadStep == phase = "dead" /\ phase' = "run"

(* C1: a workflow sends S_OK at most once in its lifetime (the lifetime of  *)
(* the object in a driver process); once the finalized latch is set, no     *)
(* later on_ok calls on_all_ok or sends S_OK again.                         *)
FinalizedAtMostOnce ==
    /\ [](\A w \in WorkIds : npub[w] <= 1)
    /\ [][\A w \in 1..Len(works) :
             works[w].finalized =>
                 npub'[w] <= npub[w] /\ nhook'[w] <= nhook[w]]_vars

\* A workflow of two tasks has been finalized and has sent S_OK once: on_ok
\* ran for the first task's signal without finalizing.
FinalizedOnceWitness ==
    \E w \in 1..Len(works) :
        NTasks(works, w) = 2 /\ works[w].finalized /\ npub[w] = 1

(* C2: whenever a workflow has sent S_OK, at that moment all its tasks were *)
(* S_OK, on_all_ok had been called and had returned, and finalized was set. *)
PublishAfterAllOk ==
    \A w \in WorkIds :
        npub[w] > 0 =>
            pubObs[w].all_ok /\ pubObs[w].finalized /\ pubObs[w].hooked

PublishWitness ==
    \E w \in 1..Len(works) :
        npub[w] > 0 /\ nhook[w] > 0 /\ AllOk(works, w)

(* C3: a task becomes S_READY in a step only if every one of its upstream   *)
(* dependencies is S_OK.                                                    *)
ReadyOnlyIfDepsOk ==
    [][\A n \in StableTasks :
          (StatusOf(works', n) = S_READY /\ StatusOf(works, n) # S_READY)
              => \A d \in works'[n[1]].tasks[n[2]].deps :
                     NodeStatus(works', d) = S_OK]_vars

\* A task that has a dependency is S_READY.
ReadyWitness ==
    \E n \in TaskNodes(works) :
        /\ StatusOf(works, n) = S_READY
        /\ works[n[1]].tasks[n[2]].deps # {}

(* C4: the function of a callback is invoked by on_dep_ok only for a sender *)
(* among its dependencies, only while it is not disabled, and only when     *)
(* every dependency is S_OK.                                                *)
CallbackOnlyWhenDepsOk ==
    \A c \in CbkIds :
        ncalls[c] > 0 =>
            cbkObs[c].handled /\ cbkObs[c].enabled /\ cbkObs[c].deps_ok

StatusNeverDecreases ==
    [][(workflow_check_status \/ flow_check_status) =>
          \A n \in StableTasks : StatusOf(works', n) >= StatusOf(works, n)]_vars

(* C7: when the driver has died, the snapshot file is absent or complete,   *)
(* never a truncated blob.                                                  *)
SnapshotNeverPartial == phase = "dead" => disk.kind # "partial"

LoadReconnects ==
    [][LoadStep =>
          /\ \A n \in TaskNodes(works') :
                [h |-> "on_ok", w |-> n[1], sender |-> n] \in bus'
          /\ \A c \in 1..Len(callbacks') : \A d \in callbacks'[c].deps :
                [h |-> "on_dep_ok", w |-> 0, sender |-> d] \in bus']_vars

\* A loaded flow whose callback has two dependencies, with its connections.
ReconnectWitness ==
    /\ phase = "run"
    /\ \A w \in WorkIds : npub[w] = 0 /\ nhook[w] = 0
    /\ \E w \in 1..Len(works) : works[w].finalized
    /\ \E c \in 1..Len(callbacks) :
          /\ Cardinality(callbacks[c].deps) = 2
          /\ \A d \in callbacks[c].deps :
                [h |-> "on_dep_ok", w |-> 0, sender |-> d] \in bus

(* C10: when fetch_task_to_run returns a task it is the one of smallest     *)
(* index among the tasks that are S_READY with all dependencies S_OK; it    *)
(* returns None exactly when no task is runnable and some task is pending.  *)
FetchFirstRunnable ==
    \A w \in 1..Len(works) :
        LET r == fetch_task_to_run(works, w)
            ts == works[w].tasks
            runnable(i) == /\ ts[i].status = S_READY
                           /\ \A d \in ts[i].deps : NodeStatus(works, d) = S_OK
            pending(i) == ts[i].status < S_DONE
        IN  /\ r > 0 => /\ r <= Len(ts)
                        /\ runnable(r)
                        /\ \A j \in 1..(r - 1) : ~runnable(j)
            /\ r = None <=> /\ \A i \in 1..Len(ts) : ~runnable(i)
                            /\ \E i \in 1..Len(ts) : pending(i)

\* The first task has been submitted and the second one is returned; and a
\* state where two tasks are runnable.
FetchWitness ==
    \E w \in 1..Len(works) :
        /\ NTasks(works, w) = 2
        /\ works[w].tasks[1].status = S_SUB
        /\ fetch_task_to_run(works, w) = 2

(* C11 as stated: fetch_task_to_run raises StopIteration exactly when every *)
(* task of the workflow is S_OK.                                            *)
StopIterationIffAllOk ==
    \A w \in 1..Len(works) :
        fetch_task_to_run(works, w) = StopIteration <=> AllOk(works, w)

(* C11 amended: fetch_task_to_run raises StopIteration exactly when every   *)
(* task of the workflow is completed (status >= S_DONE, which includes      *)
(* S_ERROR and S_UNCONVERGED); otherwise it returns a task or None.         *)
StopIterationIffAllCompleted ==
    \A w \in 1..Len(works) :
        LET r == fetch_task_to_run(works, w)
            ts == works[w].tasks
        IN  /\ r = StopIteration <=> \A i \in 1..Len(ts) : ts[i].status >= S_DONE
            /\ r # StopIteration => r = None \/ r \in 1..Len(ts)

\* Every task of a workflow is completed, one of them in S_ERROR, and
\* fetch_task_to_run raises.
StopIterationWitness ==
    \E w \in 1..Len(works) :
        /\ NTasks(works, w) = 2
        /\ works[w].tasks[1].status = S_ERROR
        /\ works[w].tasks[2].status >= S_DONE
        /\ fetch_task_to_run(works, w) = StopIteration

(* C12: when no task of a workflow is S_READY, S_SUB or S_RUN and some task *)
(* is not completed, fetch_task_to_run returns None and logs the deadlock   *)
(* warning.                                                                 *)
DeadlockDetected ==
    \A w \in 1..Len(works) :
        LET ts == works[w].tasks IN
        (/\ \A i \in 1..Len(ts) : ts[i].status \notin {S_READY, S_SUB, S_RUN}
         /\ \E i \in 1..Len(ts) : ts[i].status < S_DONE)
        => fetch_task_to_run(works, w) = None /\ FetchWarns(works, w)

\* The first task failed and the second one, which depends on it, waits.
DeadlockWitness ==
    \E w \in 1..Len(works) :
        /\ NTasks(works, w) = 2
        /\ works[w].tasks[1].status = S_ERROR
        /\ works[w].tasks[2].status = S_INIT
        /\ <<w, 1>> \in works[w].tasks[2].deps
        /\ FetchWarns(works, w)

(* C13: the value Workflow.status returns is the minimum of the statuses of *)
(* the tasks of the workflow (as check_status, which the property runs,     *)
(* leaves them), and S_INIT for a workflow without tasks.                   *)
StatusIsMinimum ==
    phase = "run" =>
    \A w \in 1..Len(works) :
    \A adv \in SUBSET InFlight(works, {w}) :
    \A res \in ResultChoices(adv), beh \in BehChoices :
        LET r == WorkflowStatus(Mem, w, adv, res, beh)
            ts == r.m.works[w].tasks
        IN  /\ Len(ts) = 0 => r.value = S_INIT
            /\ (Len(ts) > 0 /\ ~r.m.exc) =>
                  /\ \A i \in 1..Len(ts) : r.value <= ts[i].status
                  /\ \E i \in 1..Len(ts) : r.value = ts[i].status

\* A workflow whose two tasks have different statuses, the second one the
\* smaller, and an empty workflow.
StatusWitness ==
    /\ phase = "run"
    /\ \E w \in 1..Len(works) :
          /\ NTasks(works, w) = 2
          /\ works[w].tasks[2].status < works[w].tasks[1].status
          /\ works[w].tasks[2].status >= S_SUB
    /\ \E w \in 1..Len(works) : NTasks(works, w) = 0

(* C14: on_ok called while some task of the workflow is not S_OK returns    *)
(* returncode 1 and changes nothing (no on_all_ok, no finalized, no S_OK    *)
(* sent); a workflow with a task that is and stays S_ERROR or S_UNCONVERGED *)
(* is not finalized and on_all_ok is not called for it.                     *)
NotAllOkNoFinalize ==
    /\ [](phase = "run" =>
            \A w \in 1..Len(works) : \A beh \in Behaviours :
                ~AllOk(works, w) =>
                    /\ on_ok(Mem, w, beh) = Mem
                    /\ OnOkReturncode(works, w) = 1)
    /\ [][\A n \in StableTasks :
             (/\ StatusOf(works, n) \in {S_ERROR, S_UNCONVERGED}
              /\ StatusOf(works', n) = StatusOf(works, n))
             => /\ ~works'[n[1]].finalized
                /\ nhook'[n[1]] = nhook[n[1]]
                /\ npub'[n[1]] = npub[n[1]]]_vars

\* The second task is S_OK and has sent its signal to on_ok while the first
\* one has failed.
NotAllOkWitness ==
    \E w \in 1..Len(works) :
        /\ phase = "run"
        /\ NTasks(works, w) = 2
        /\ works[w].tasks[1].status = S_ERROR
        /\ works[w].tasks[2].status = S_OK
        /\ OnOkSub(w, <<w, 2>>) \in bus
        /\ ~works[w].finalized /\ nhook[w] = 0 /\ npub[w] = 0

(* C16: in a built workflow (on_ok connected to the S_OK signal of each of  *)
(* its tasks), the step in which the last task reaches S_OK and sends its   *)
(* signal is the step in which the workflow calls on_all_ok, is finalized   *)
(* and sends S_OK, once.                                                    *)
FinalizedWithLastTask ==
    [][\A w \in 1..Len(works) :
          (/\ phase = "run" /\ phase' = "run"
           /\ NTasks(works, w) > 0
           /\ NTasks(works', w) = NTasks(works, w)
           /\ \A i \in 1..NTasks(works, w) : OnOkSub(w, <<w, i>>) \in bus
           /\ ~AllOk(works, w) /\ AllOk(works', w))
          => /\ works'[w].finalized
             /\ nhook[w] = 0 /\ nhook'[w] = 1
             /\ npub[w] = 0 /\ npub'[w] = 1]_vars

\* A workflow of two tasks, the second depending on the first, is finalized
\* and has sent S_OK once.
FinalizedWithLastWitness ==
    \E w \in 1..Len(works) :
        /\ NTasks(works, w) = 2
        /\ works[w].tasks[2].deps = {<<w, 1>>}
        /\ AllOk(works, w)
        /\ works[w].finalized /\ npub[w] = 1 /\ nhook[w] = 1

(* C20: Workflow.register appends the new task after the tasks already      *)
(* registered; in every later step of the driver the tasks already          *)
(* registered keep their index, none is removed, and a task added by the    *)
(* step is a new node placed after them.                                    *)
IndexStability ==
    [][phase' # "dead" =>
          \A w \in 1..Len(works) :
              /\ Len(works') >= Len(works)
              /\ NTasks(works', w) >= NTasks(works, w)
              /\ \A i \in 1..NTasks(works, w) :
                    /\ works'[w].tasks[i].node_id = works[w].tasks[i].node_id
                    /\ works'[w].tasks[i].deps = works[w].tasks[i].deps
              /\ \A j \in (NTasks(works, w) + 1)..NTasks(works', w) :
                    \A n \in TaskNodes(works) :
                        works'[w].tasks[j].node_id # works[n[1]].tasks[n[2]].node_id]_vars

\* Two tasks registered one after the other, after check_status, submit and
\* on_ok have acted on the first.
IndexWitness ==
    \E w \in 1..Len(works) :
        /\ phase = "run"
        /\ NTasks(works, w) = 2
        /\ works[w].tasks[1].node_id < works[w].tasks[2].node_id
        /\ works[w].tasks[1].status = S_OK
        /\ works[w].tasks[2].status = S_SUB

MinKMN ==
    LET c == {loop.exit_at, loop.nvals} \cup
             (IF loop.max_niter > 0 THEN {loop.max_niter} ELSE {})
    IN  CHOOSE x \in c : \A y \in c : x <= y

IterOrder ==
    loop.kind = "IterativeWorkflow" =>
    LET log == loop.log
        ts == works[1].tasks
    IN  /\ Len(loop.strat) = loop.pulled
        /\ loop.pc # "idle" => Len(ts) = loop.pre + loop.pulled
        /\ \A i \in 1..Len(loop.strat) : loop.strat[i] = i
        /\ \A p \in 2..Len(log) :
              log[p] \in {"next", "exhausted", "limit"} =>
                  /\ p >= 5
                  /\ log[p - 4] = "next" /\ log[p - 3] = "start"
                  /\ log[p - 2] = "wait" /\ log[p - 1] = "continue"
        /\ \A p \in 1..Len(log) :
              log[p] = "next" /\ p < Len(log) => log[p + 1] = "start"
        /\ Cardinality({i \in 1..Len(ts) : ts[i].status \in {S_SUB, S_RUN}}) <= 1
        /\ (Len(log) > 0 /\ log[Len(log)] = "exhausted") =>
              /\ loop.pc = "done" /\ loop.raised = "none"
              /\ loop.pulled = loop.nvals

\* The generator was exhausted at the third pull, after two tasks were run.
IterOrderWitness ==
    /\ loop.kind = "IterativeWorkflow"
    /\ loop.pre = 0
    /\ loop.nvals = 2
    /\ loop.log = <<"next", "start", "wait", "continue",
                    "next", "start", "wait", "continue", "exhausted">>
    /\ NTasks(works, 1) = 2

(* ---------------------------------------------------------------------- *)
(* C21: set_workdir on a workflow whose workdir is already set is a no-op  *)
(* when it is given the same path, in whatever form the path was first     *)
(* passed (a relative path included), and raises when it is given a        *)
(* different path, leaving workdir, indir, outdir and tmpdir as they were. *)
(* ---------------------------------------------------------------------- *)
SetWorkdirRebind ==
    [][workflow_set_workdir =>
        LET call == layout'.last
            old == layout.objs[call.h]
            new == layout'.objs[call.h]
        IN  old.workdir # NoAttr =>
               /\ new = old
               /\ call.raised = "none" <=> abspath(call.arg) = old.workdir
      ]_vars

(* ---------------------------------------------------------------------- *)
(* C22 as stated: after allocate returns normally every task i has a       *)
(* manager and the workdir workflow.workdir/task_i; allocate assigns only  *)
(* to tasks that lack a manager or a workdir; and it raises if and only if *)
(* some task already has a workdir other than workflow.workdir/task_i.     *)
(* ---------------------------------------------------------------------- *)
AllocateRaisesIffMismatch ==
    [][workflow_allocate =>
        LET call == layout'.last
            old == layout.objs[call.h]
            new == layout'.objs[call.h]
            N == 1..Len(old.tasks)
            Canonical(i) == Append(old.workdir, TaskName(i - 1))
        IN  /\ call.raised = "none" =>
                  \A i \in N : /\ new.tasks[i].manager # NoManager
                               /\ new.tasks[i].workdir = Canonical(i)
            /\ \A i \in N :
                  /\ old.tasks[i].manager # NoManager =>
                        new.tasks[i].manager = old.tasks[i].manager
                  /\ old.tasks[i].workdir # NoAttr =>
                        new.tasks[i].workdir = old.tasks[i].workdir
            /\ call.raised # "none" <=>
                  \E i \in N : /\ old.tasks[i].workdir # NoAttr
                               /\ old.tasks[i].workdir # Canonical(i)
      ]_vars

(* ---------------------------------------------------------------------- *)
(* C22: after allocate returns normally every task i has a manager and the *)
(* workdir workflow.workdir/task_i; allocate assigns only to tasks that    *)
(* lack a manager or a workdir; and it raises if and only if some task     *)
(* already has a workdir other than workflow.workdir/task_i, or the        *)
(* workflow has a task and no workdir, or the workflow has no manager and  *)
(* one of its tasks has none either.                                       *)
(* ---------------------------------------------------------------------- *)
AllocateContract ==
    [][workflow_allocate =>
        LET call == layout'.last
            old == layout.objs[call.h]
            new == layout'.objs[call.h]
            N == 1..Len(old.tasks)
            Canonical(i) == Append(old.workdir, TaskName(i - 1))
        IN  /\ call.raised = "none" =>
                  \A i \in N : /\ new.tasks[i].manager # NoManager
                               /\ new.tasks[i].workdir = Canonical(i)
            /\ \A i \in N :
                  /\ old.tasks[i].manager # NoManager =>
                        new.tasks[i].manager = old.tasks[i].manager
                  /\ old.tasks[i].workdir # NoAttr =>
                        new.tasks[i].workdir = old.tasks[i].workdir
            /\ call.raised # "none" <=>
                  \/ \E i \in N : /\ old.tasks[i].workdir # NoAttr
                                  /\ old.tasks[i].workdir # Canonical(i)
                  \/ N # {} /\ old.workdir = NoAttr
                  \/ /\ old.manager = NoManager
                     /\ \E i \in N : old.tasks[i].manager = NoManager
      ]_vars

\* allocate has returned normally on a workflow of two tasks, the first
\* registered before the workflow had a workdir or a manager.
AllocateWitness ==
    /\ layout.last.op = "allocate"
    /\ layout.last.raised = "none"
    /\ LET o == layout.objs[layout.last.h]
       IN  /\ Len(o.tasks) = 2
           /\ o.tasks[1].manager = o.manager
           /\ o.tasks[2].workdir = Append(o.workdir, "task_1")

(* ---------------------------------------------------------------------- *)
(* C23: after any sequence of register_work and register_cbk calls the     *)
(* workflow at position i of the flow (from zero, one index space for      *)
(* registered workflows and callback workflows) has the workdir            *)
(* flow.workdir/work_i, every registration appends exactly one workflow,   *)
(* and every workflow holds a deep copy of the manager that is its own.    *)
(* ---------------------------------------------------------------------- *)
FlowSlots ==
    /\ [](\A i \in 1..Len(layout.flow) :
             LET o == layout.objs[layout.flow[i]]
             IN  /\ o.workdir = <<"/", "flow">> \o <<WorkName(i - 1)>>
                 /\ o.manager \notin {NoManager, UserManager, FlowManager}
                 /\ \A j \in 1..Len(layout.flow) :
                       j # i => /\ layout.flow[j] # layout.flow[i]
                                /\ layout.objs[layout.flow[j]].manager
                                      # o.manager)
    /\ [][(flow_register_work \/ flow_register_cbk) =>
             IF layout'.last.op = "register_work"
                /\ layout'.last.raised # "none"
             THEN layout'.flow = layout.flow
             ELSE /\ Len(layout'.flow) = Len(layout.flow) + 1
                  /\ \A i \in 1..Len(layout.flow) :
                        layout'.flow[i] = layout.flow[i]
                  /\ layout'.flow[Len(layout'.flow)] = layout'.last.h
         ]_vars

\* Two workflows are registered: one the user made without a workdir and
\* with a task, and one made by register_cbk.
FlowSlotsWitness ==
    /\ Len(layout.flow) = 2
    /\ layout.last.op = "register_work"
    /\ layout.last.raised = "none"
    /\ layout.flow[2] = 1
    /\ Len(layout.objs[1].tasks) > 0
    /\ layout.objs[1].workdir = <<"/", "flow", "work_1">>

(* ---------------------------------------------------------------------- *)
(* C24: register_cbk with at least one dependency makes an empty workflow  *)
(* (no task, status S_INIT) at the next slot, attaches the dependencies to *)
(* it and appends exactly one enabled Callback bound to that workflow; with*)
(* an empty dependency map it raises and appends no Callback.              *)
(* ---------------------------------------------------------------------- *)
RegisterCbkContract ==
    [][register_cbk =>
        LET slot == Len(works) + 1
        IN  /\ Len(works') = slot
            /\ \A w \in 1..Len(works) : works'[w] = works[w]
            /\ works'[slot].tasks = <<>>
            /\ ~works'[slot].finalized
            /\ WorkStatus(works', slot) = S_INIT
            /\ IF works'[slot].deps # {}
               THEN callbacks' =
                       Append(callbacks, [work |-> slot,
                                          deps |-> works'[slot].deps,
                                          disabled |-> FALSE])
               ELSE callbacks' = callbacks
      ]_vars

\* A callback has been registered on two upstream nodes.
RegisterCbkWitness ==
    /\ phase = "setup"
    /\ Len(callbacks) = 1
    /\ Cardinality(callbacks[1].deps) = 2
    /\ works[callbacks[1].work].deps = callbacks[1].deps
    /\ works[callbacks[1].work].tasks = <<>>

(* ---------------------------------------------------------------------- *)
(* C25: after Flow.build returns the signals of the flow are connected:    *)
(* on_ok of every workflow is subscribed to the S_OK of its tasks, and     *)
(* flow.on_dep_ok is subscribed to the S_OK of every upstream node a       *)
(* pending callback refers to.                                             *)
(* ---------------------------------------------------------------------- *)
BuildConnectsSignals ==
    [][build_and_pickle_dump =>
        /\ \A n \in TaskNodes(works) : OnOkSub(n[1], n) \in bus'
        /\ \A c \in 1..Len(callbacks) :
              ~callbacks[c].disabled =>
                 \A d \in callbacks[c].deps : OnDepOkSub(d) \in bus'
      ]_vars

(* ---------------------------------------------------------------------- *)
(* C26: when on_all_ok raises during on_ok the exception is caught inside  *)
(* on_ok (nothing leaves the call that delivered the signal), the workflow *)
(* stays non-finalized and no S_OK is published for it.                    *)
(* ---------------------------------------------------------------------- *)
HookErrorCaught ==
    [][(work_check_status /\ nhook'[1] > nhook[1] /\ ~works'[1].finalized) =>
          /\ loop'.escaped = "none"
          /\ npub'[1] = npub[1]
      ]_vars

(* C27: when the function of a callback raises inside on_dep_ok, the       *)
(* exception leaves on_dep_ok and the call that sent the signal, and the   *)
(* dispatch stops there: the raise is the last thing that happens in the   *)
(* call, so no callback after it is executed and nothing is disabled or    *)
(* dumped for the raising callback, which is still enabled in the flow     *)
(* and in the last snapshot; and no step in which a callback raised        *)
(* changes the subscriptions.                                              *)
UserRaiseAt(log, i) == log[i].ev = "raise" /\ log[i].ret = "Exception"
CallbackErrorAborts ==
    /\ [](\A i \in 1..Len(loop.log) :
            UserRaiseAt(loop.log, i) =>
                /\ loop.escaped = "Exception"
                /\ i = Len(loop.log)
                /\ i > 1
                /\ loop.log[i - 1].ev = "func"
                /\ loop.log[i - 1].c = loop.log[i].c
                /\ ~callbacks[loop.log[i].c].disabled
                /\ ~dumped.callbacks[loop.log[i].c].disabled)
    /\ [][(\E i \in 1..Len(loop'.log) : UserRaiseAt(loop'.log, i))
             => bus' = bus]_vars

\* The first of two callbacks on the same nodes raised; the second, still
\* enabled, has never been called.
CallbackErrorAbortsWitness ==
    /\ Len(callbacks) = 2
    /\ Len(loop.log) > 0
    /\ UserRaiseAt(loop.log, Len(loop.log))
    /\ loop.log[Len(loop.log)].c = 1
    /\ callbacks[2].deps = callbacks[1].deps
    /\ ~callbacks[2].disabled
    /\ ncalls[2] = 0
    /\ loop.escaped = "Exception"

(* C28: within one on_dep_ok dispatch the callbacks are executed in the    *)
(* order of registration; a callback is executed only when all its         *)
(* dependencies are S_OK at that moment; for an executed callback whose    *)
(* function returns a workflow the steps are, in this order and with       *)
(* nothing in between: invoke func, add_deps, disable, pickle_dump, so     *)
(* the snapshot of callback k is written before callback k+1 is            *)
(* considered; and a callback that was not executed in a call is left      *)
(* as it was.                                                              *)
SameDispatch(log, i, j) == \A k \in i..j : log[k].ev # "on_dep_ok"

\* The events from i on are those of one complete execution of callback c.
CompleteAt(log, i, c) ==
    /\ i + 4 <= Len(log)
    /\ \A k \in 0..4 : log[i + k].c = c
    /\ log[i + 1].ev = "return"
    /\ log[i + 2].ev = "add_deps"
    /\ log[i + 3].ev = "disable"
    /\ log[i + 4].ev = "pickle_dump"

DispatchOrder ==
    LET log == loop.log IN
    /\ \A i, j \in 1..Len(log) :
          (i < j /\ SameDispatch(log, i, j)
             /\ log[i].c > 0 /\ log[j].c > 0) => log[i].c <= log[j].c
    /\ \A i \in 1..Len(log) :
          (log[i].ev = "func" /\ log[Len(log)].ev # "raise")
              => CompleteAt(log, i, log[i].c)
    /\ \A i \in 1..Len(log) :
          log[i].ev \in {"return", "add_deps", "disable", "pickle_dump",
                         "raise"}
              => \E k \in 1..i : log[k].ev = "func" /\ log[k].c = log[i].c
                                    /\ SameDispatch(log, k, i)

OnlyEligibleExecuted ==
    \A i \in 1..Len(loop.log) :
        loop.log[i].ev = "func" => loop.log[i].deps_ok

CallbacksInOrderWhenEligible ==
    /\ [](DispatchOrder /\ OnlyEligibleExecuted)
    /\ [][\A c \in 1..Len(callbacks) :
            (\A i \in 1..Len(loop'.log) :
                ~(loop'.log[i].ev = "func" /\ loop'.log[i].c = c))
            => callbacks'[c] = callbacks[c]]_vars

(* C29: once on_dep_ok has executed a callback (its function returned),    *)
(* the workflow the flow holds at the callback's slot is populated with    *)
(* the tasks the callback made, whether the function returned nothing,     *)
(* cb.work or a replacement; that workflow carries cb.deps, the callback   *)
(* is disabled, and the last snapshot holds the populated workflow and     *)
(* the disabled callback.                                                  *)
CallbackWorkInstalled ==
    \A i \in 1..Len(loop.log) :
        loop.log[i].ev = "return" =>
            LET c == loop.log[i].c
                slot == callbacks[c].work
            IN  /\ works[slot].tasks # <<>>
                /\ callbacks[c].deps \subseteq works[slot].deps
                /\ callbacks[c].disabled
                /\ dumped.callbacks[c].disabled
                /\ dumped.works[slot].tasks # <<>>

(* C30: in every state, for every workflow ncpus_reserved is the sum of    *)
(* tot_ncpus over its tasks that are S_SUB, ncpus_inuse the sum over its   *)
(* tasks that are S_RUN and ncpus_allocated the sum over its tasks that    *)
(* are S_SUB or S_RUN, so that allocated = reserved + inuse; and for the   *)
(* flow each of the three queries returns the sum of the corresponding     *)
(* value over its workflows.                                               *)
RECURSIVE SumOver(_, _)
SumOver(S, ts) ==
    IF S = {} THEN 0
    ELSE LET i == CHOOSE x \in S : TRUE
         IN  tot_ncpus(ts[i]) + SumOver(S \ {i}, ts)

TasksIn(ts, sts) == {i \in 1..Len(ts) : ts[i].status \in sts}

RECURSIVE SumWorks(_, _)
SumWorks(ws, w) ==
    IF w > Len(ws) THEN <<0, 0, 0>>
    ELSE LET r == SumWorks(ws, w + 1)
             ts == ws[w].tasks
         IN  <<SumOver(TasksIn(ts, {S_SUB}), ts) + r[1],
               SumOver(TasksIn(ts, {S_SUB, S_RUN}), ts) + r[2],
               SumOver(TasksIn(ts, {S_RUN}), ts) + r[3]>>

WorkflowCpuAccounting ==
    \A w \in 1..Len(works) :
        LET ts == works[w].tasks IN
        /\ ncpus_reserved(works, w) = SumOver(TasksIn(ts, {S_SUB}), ts)
        /\ ncpus_inuse(works, w) = SumOver(TasksIn(ts, {S_RUN}), ts)
        /\ ncpus_allocated(works, w) = SumOver(TasksIn(ts, {S_SUB, S_RUN}), ts)
        /\ ncpus_allocated(works, w)
               = ncpus_reserved(works, w) + ncpus_inuse(works, w)

CpuAccounting ==
    /\ WorkflowCpuAccounting
    /\ flow_ncpus_reserved(works)
           = [raised |-> "none", value |-> SumWorks(works, 1)[1]]
    /\ flow_ncpus_allocated(works)
           = [raised |-> "none", value |-> SumWorks(works, 1)[2]]
    /\ flow_ncpus_inuse(works)
           = [raised |-> "none", value |-> SumWorks(works, 1)[3]]

(* C31: in every state of a flow the node_ids of all its workflows and     *)
(* tasks are pairwise distinct and not zero, whatever registrations and    *)
(* callback executions made the nodes.                                     *)
NodeId(ws, n) ==
    IF n[2] = 0 THEN ws[n[1]].node_id ELSE ws[n[1]].tasks[n[2]].node_id

NodeIdQueries ==
    \A optimize \in BOOLEAN :
        /\ used_ids(works, optimize) =
              [raised |-> "none",
               value |-> {NodeId(works, n) : n \in ExistingNodes(works)}]
        /\ generate_new_nodeid(works, optimize).raised = "none"
        /\ generate_new_nodeid(works, optimize).value
              \notin {NodeId(works, n) : n \in ExistingNodes(works)}

SameFlow(a, b) == a.works = b.works /\ a.callbacks = b.callbacks

\* Two calls of Workflow.check_status in a row, for every first call the
\* state allows.
WorkflowCheckIdempotent ==
    phase = "run" =>
        \A w \in 1..Len(works) :
        \A adv \in SUBSET InFlight(works, {w}) :
        \A res \in ResultChoices(adv), beh \in BehChoices :
            LET m1 == check_status(Mem, w, adv, res, beh)
            IN  ~m1.exc =>
                  \A b2 \in Behaviours :
                     LET m2 == check_status(m1, w, {}, res, b2)
                     IN  ~m2.exc => SameFlow(m2, m1)

\* Two calls of AbinitFlow.check_status in a row.
FlowCheckIdempotent ==
    phase = "run" =>
        \A adv \in SUBSET InFlight(works, 1..Len(works)) :
        \A res \in ResultChoices(adv), beh \in BehChoices :
            LET m1 == FlowCheckFrom(Mem, adv, res, beh, 1)
            IN  ~m1.exc =>
                  \A b2 \in Behaviours :
                     LET m2 == FlowCheckFrom(m1, {}, res, b2, 1)
                     IN  ~m2.exc => SameFlow(m2, m1)

CheckStatusIdempotent == WorkflowCheckIdempotent /\ FlowCheckIdempotent

(* ---------------------------------------------------------------------- *)
(* C35.  No double submission under the single driver: a task that is      *)
(* submitted (S_SUB) and that the runner has not reclassified is not       *)
(* returned by fetch_task_to_run again, whatever the driver calls in       *)
(* between (check_status, reads of Workflow.status, fetch_task_to_run).    *)
(* ---------------------------------------------------------------------- *)
\* Task n is still submitted, or the runner has moved it on.
SubmittedOrLater(ws, n) == ws[n[1]].tasks[n[2]].status >= S_SUB

NoDoubleSubmission ==
    [][\A n \in StableTasks :
          works[n[1]].tasks[n[2]].status = S_SUB =>
             \/ works'[n[1]].tasks[n[2]].status > S_SUB
             \/ /\ SubmittedOrLater(works', n)
                /\ fetch_task_to_run(works', n[1]) # n[2]]_vars

(* ---------------------------------------------------------------------- *)
(* C36.  The assertion len(self) == self.niter of                          *)
(* IterativeWorkflow.next_task holds whenever the generator yields a       *)
(* value: in the first submit_tasks of a fresh workflow, in a second       *)
(* submit_tasks of the same workflow, and when next_task is called         *)
(* directly before any submit_tasks.                                       *)
(* ---------------------------------------------------------------------- *)
NextTaskAssertHolds == loop.raised # "AssertionError"

\* The part of it about a submit_tasks entered with no task registered.
FreshAssertHolds ==
    [][(iter_next_task /\ loop.pre = 0) => loop'.raised = "none"]_vars

\* When the assertion fails the task is in the workflow already.
AppendedBeforeAssert ==
    [][(loop'.raised = "AssertionError" /\ loop.raised # "AssertionError")
          => NTasks(works', 1) = NTasks(works, 1) + 1]_vars

(* ---------------------------------------------------------------------- *)
(* C37.  When register_cbk fails because the dependency map is empty, the  *)
(* flow is left unchanged: the list of workflows has the same length and   *)
(* content as before the call and the list of callbacks is unchanged.      *)
(* ---------------------------------------------------------------------- *)
FailedRegisterCbkNoChange ==
    [][(register_cbk /\ works'[Len(works')].deps = {})
          => works' = works /\ callbacks' = callbacks]_vars

\* The same on the flow of Workflow objects: the call that raised
\* ValueError left the list of the flow as it was.
FailedRegisterCbkSameSlots ==
    [][(flow_register_cbk /\ layout'.last.raised = "ValueError")
          => layout'.flow = layout.flow]_vars

\* What does hold: the failed call appends no Callback.
FailedRegisterCbkNoCallback ==
    [][(register_cbk /\ works'[Len(works')].deps = {})
          => callbacks' = callbacks]_vars

(* ---------------------------------------------------------------------- *)
(* C38.  fetch_task_to_run raises the all-done exception only for          *)
(* workflows whose aggregate status is at least S_DONE; for a workflow     *)
(* without tasks (the one register_cbk makes, status S_INIT) it does not   *)
(* raise.                                                                  *)
(* ---------------------------------------------------------------------- *)
AllDoneOnlyWhenDone ==
    \A w \in 1..Len(works) :
        /\ fetch_task_to_run(works, w) = StopIteration
              => WorkStatus(works, w) >= S_DONE
        /\ NTasks(works, w) = 0 => fetch_task_to_run(works, w) # StopIteration

\* The part that holds: with at least one task, all-done goes with an
\* aggregate status of at least S_DONE.
AllDoneNonEmpty ==
    \A w \in 1..Len(works) :
        (NTasks(works, w) > 0 /\ fetch_task_to_run(works, w) = StopIteration)
            => WorkStatus(works, w) >= S_DONE

(* ---------------------------------------------------------------------- *)
(* C39.  check_conv(values, tol, min_numpts) in mode "abs" returns the     *)
(* leftmost index i such that abs(values[j] - values[-1]) < tol for every  *)
(* j >= i, provided at least min_numpts points are converged, and -1       *)
(* otherwise; it returns 0 when every value is converged, and never an     *)
(* index whose value is not within tol.  Indices count from 0.             *)
(* ---------------------------------------------------------------------- *)
\* abs(values[j] - values[-1]) < tol, for the python index j.
WithinTol(c, j) ==
    LET n == Len(c.values)
        d == c.values[j + 1] - c.values[n]
    IN  (IF d >= 0 THEN d ELSE 0 - d) < c.tol

\* Every value from the python index i on is within tol.
ConvergedFrom(c, i) == \A j \in i..(Len(c.values) - 1) : WithinTol(c, j)

\* The indices the contract allows: converged from there on, with at least
\* min_numpts points.
ConvCandidates(c) ==
    {i \in 0..(Len(c.values) - 1) :
        ConvergedFrom(c, i) /\ Len(c.values) - i >= c.min_numpts}

\* The index the contract asks for.
ConvExpected(c) ==
    IF ConvCandidates(c) = {} THEN 0 - 1
    ELSE CHOOSE i \in ConvCandidates(c) : \A k \in ConvCandidates(c) : i <= k

CheckConvContract ==
    (conv.called /\ Len(conv.values) > 0 /\ conv.min_numpts >= 1) =>
        /\ conv.raised = "none"
        /\ conv.value = ConvExpected(conv)
        /\ ConvergedFrom(conv, 0) /\ Len(conv.values) >= conv.min_numpts
              => conv.value = 0
        /\ conv.value >= 0 => WithinTol(conv, conv.value)

\* check_conv never raises on a list that is not empty when min_numpts is
\* at least 1.
CheckConvReturns ==
    (conv.called /\ Len(conv.values) > 0 /\ conv.min_numpts >= 1) =>
        conv.raised = "none"

\* When check_conv returns an index, min_numpts points at least lie to its
\* right, the last of them within tol.
CheckConvCounts ==
    (conv.called /\ conv.raised = "none" /\ conv.value >= 0) =>
        /\ Len(conv.values) - conv.value >= conv.min_numpts
        /\ conv.value < Len(conv.values)

====
